---- MODULE Spec2Model ----
(***************************************************************************)
(* A model of the process and system monitoring engine of                  *)
(* src/agents/syscall_monitor_agent/agent.py (class SyscallMonitorAgent). *)
(*                                                                         *)
(* The agent's own fields are the variable self, the state of the psutil   *)
(* module is the variable psutil.  The operating system is the variable    *)
(* procs: the process table in                                             *)
(* psutil.process_iter's enumeration order.  Every tool of the agent is    *)
(* an operation whose control position is pc, whose arguments are args,    *)
(* whose locals are loc and whose returned dict is result.                 *)
(*                                                                         *)
(* Percentages (cpu_percent, memory_percent, compliance_score) are         *)
(* integers in thousandths of a percent point (5000 is 5.0 %), so that     *)
(* round(x, 2) is a real rounding.                                         *)
(***************************************************************************)
EXTENDS Integers, Sequences, FiniteSets, TLC

VARIABLES self, psutil, procs, op, pc, args, loc, result

vars == <<self, psutil, procs, op, pc, args, loc, result>>

(***************************************************************************)
(* Bounds of the model.                                                    *)
(***************************************************************************)
\* pids of the small process tables are 1..MaxPid
MaxPid == 3
\* list_processes: the small tables hold at most MaxListed processes
MaxListed == 2
\* list_processes: limits 0..MaxLimit and offsets 0..MaxOffset are tried,
\* and the page size PageLimit of the pagination property
MaxLimit == 1
MaxOffset == 1
PageLimit == 10
\* filter_processes: the tables hold at most MaxFiltered processes and
\* limits 0..MaxFilterLimit are tried
MaxFiltered == 2
MaxFilterLimit == 2
\* get_process_tree: max_depth 0..MaxDepth is tried
MaxDepth == 2

\* the longest series of samples of the short series given to
\* _analyze_behavior_patterns
MaxSamples == 2

\* the most children_spawned entries given to _analyze_behavior_patterns
MaxSpawned == 4

\* analyze_process_behavior: analysis_duration 0..MaxTicks is tried
MaxTicks == 2

\* at most MaxLoops background monitoring loops are started
MaxLoops == 2

\* the interleaved list_processes calls sleep within MaxClock units of time
MaxClock == 3
MaxRequests == 2

\* monitor_process_changes: largest duration_seconds and check_interval tried
MaxDuration == 2
MaxInterval == 2

(***************************************************************************)
(* Generic helpers.                                                        *)
(***************************************************************************)
Min(a, b) == IF a < b THEN a ELSE b

Max(a, b) == IF a > b THEN a ELSE b

\* s[i:] of Python for i >= 0
Drop(s, i) == SubSeq(s, Min(i, Len(s)) + 1, Len(s))

\* s[:n] of Python for n >= 0
Take(s, n) == SubSeq(s, 1, Min(n, Len(s)))

Range(s) == {s[i] : i \in 1..Len(s)}

\* round(x, 2) of a value held in thousandths: to the nearest ten, ties to even
Round2(x) ==
    LET q == x \div 10
        r == x % 10
    IN  IF r < 5 THEN 10 * q
        ELSE IF r > 5 THEN 10 * (q + 1)
        ELSE IF q % 2 = 0 THEN 10 * q ELSE 10 * (q + 1)

NoResult == [status |-> "none"]

NoArgs == [none |-> TRUE]

NoLoc == [none |-> TRUE]

\* a mutant of ErrorResult: the exception leaves the operation
Propagated == [status |-> "raised"]

\* what every except-Exception handler at an operation's boundary returns
ErrorResult == [status |-> "error", message |-> "Failed"]

(***************************************************************************)
(* The process table.  A process is a record; ProcKinds are the kinds of   *)
(* process the small tables are built from.                                *)
(***************************************************************************)
MiB == 1024 * 1024

\* name, username and status are strings (sequences of characters), cmdline
\* is the argument vector; cpu is what the process's cpu_percent() returns on
\* its second read, mem its memory_percent(), rss and vms are bytes
ProcKinds ==
    { [name |-> <<"s", "h">>, cmdline |-> << <<"s", "h">>, <<"x">> >>, username |-> <<"r">>,
       status |-> <<"S">>, cpu |-> 0, mem |-> 1234, threads |-> 1, fds |-> 3,
       rss |-> 2 * MiB, vms |-> 3 * MiB],
      [name |-> <<"S", "h">>, cmdline |-> <<>>, username |-> <<"R">>,
       status |-> <<"R">>, cpu |-> 7004, mem |-> 6127, threads |-> 4, fds |-> 12,
       rss |-> 150 * MiB, vms |-> 160 * MiB],
      [name |-> <<"x">>, cmdline |-> << <<"x">> >>, username |-> <<"r">>,
       status |-> <<"S">>, cpu |-> 0, mem |-> 26, threads |-> 2, fds |-> 0,
       rss |-> MiB, vms |-> MiB],
      [name |-> <<"h", "x">>, cmdline |-> << <<"h", "x">>, <<"S">> >>, username |-> <<"R">>,
       status |-> <<"R">>, cpu |-> 8, mem |-> 5008, threads |-> 1, fds |-> 1,
       rss |-> 30 * MiB, vms |-> 40 * MiB] }

MkProc(pid, ppid, k) ==
    [pid |-> pid, ppid |-> ppid, name |-> k.name, cmdline |-> k.cmdline,
     username |-> k.username, status |-> k.status, cpu |-> k.cpu, mem |-> k.mem,
     threads |-> k.threads, fds |-> k.fds, rss |-> k.rss, vms |-> k.vms]

Pids(ps) == {ps[i].pid : i \in 1..Len(ps)}

\* the table after process p has exited
RECURSIVE Without(_, _)
Without(ps, p) ==
    IF ps = <<>> THEN <<>>
    ELSE IF Head(ps).pid = p THEN Tail(ps)
    ELSE <<Head(ps)>> \o Without(Tail(ps), p)

\* the table after process r has started: enumeration is in pid order
RECURSIVE Insert(_, _)
Insert(ps, r) ==
    IF ps = <<>> THEN <<r>>
    ELSE IF r.pid < Head(ps).pid THEN <<r>> \o ps
    ELSE <<Head(ps)>> \o Insert(Tail(ps), r)

(***************************************************************************)
(* Strings: sequences of the characters of Chars, which is in code point   *)
(* order.                                                                  *)
(***************************************************************************)
Chars == <<" ", "*", "?", "R", "S", "h", "r", "s", "x">>

Code(c) == CHOOSE i \in 1..Len(Chars) : Chars[i] = c

\* str.lower() on one character
LowerChar(c) == CASE c = "R" -> "r" [] c = "S" -> "s" [] OTHER -> c

Lower(str) == [i \in 1..Len(str) |-> LowerChar(str[i])]

\* a < b for two strings, as Python compares them
RECURSIVE StrLess(_, _)
StrLess(a, b) ==
    IF b = <<>> THEN FALSE
    ELSE IF a = <<>> THEN TRUE
    ELSE IF Code(Head(a)) # Code(Head(b)) THEN Code(Head(a)) < Code(Head(b))
    ELSE StrLess(Tail(a), Tail(b))

\* ' '.join(list)
RECURSIVE JoinSpace(_)
JoinSpace(list) ==
    IF list = <<>> THEN <<>>
    ELSE IF Len(list) = 1 THEN list[1]
    ELSE list[1] \o <<" ">> \o JoinSpace(Tail(list))

(***************************************************************************)
(* monitor_process_changes (agent.py 654-749).                             *)
(***************************************************************************)
\* one snapshot: the dict pid -> {name, cmdline, ...} built from process_iter
\* (lines 669-680 and 688-699), the cmdline joined with spaces
Snapshot(ps) ==
    [p \in Pids(ps) |->
        LET r == CHOOSE x \in Range(ps) : x.pid = p
        IN  [name |-> r.name, cmdline |-> JoinSpace(r.cmdline)]]

\* line 9 binds the name datetime to the class datetime.datetime
DatetimeName == "class datetime.datetime"

\* whether the attribute lookup datetime.timedelta of line 683 succeeds: the
\* module datetime has a timedelta, the class datetime.datetime has none
TimedeltaResolves == DatetimeName = "module datetime"

\* lines 656-680: the empty change lists and the initial snapshot; elapsed is
\* datetime.now() - start_time in seconds
MonitorStart(duration_seconds, check_interval) ==
    /\ pc = "idle"
    /\ op' = "monitor_process_changes"
    /\ args' = [duration_seconds |-> duration_seconds, check_interval |-> check_interval]
    /\ loc' = [initial_processes |-> Snapshot(procs),
               new_processes |-> <<>>,
               terminated_processes |-> <<>>,
               elapsed |-> 0,
               checks |-> 0,
               static |-> TRUE]
    /\ pc' = "mon_deadline"
    /\ result' = NoResult
    /\ UNCHANGED <<self, psutil, procs>>

\* the [:150] of lines 709 and 720
CmdlineKept == 150

\* the entries one check appends for a set of pids (lines 703-710, 714-721),
\* in ascending pid order, from the snapshot the pids are looked up in
RECURSIVE ChangeEntries(_, _)
ChangeEntries(pids, snapshot) ==
    IF pids = {} THEN <<>>
    ELSE LET pid == CHOOSE x \in pids : \A y \in pids : x <= y
         IN  <<[pid |-> pid,
                name |-> snapshot[pid].name,
                cmdline |-> Take(snapshot[pid].cmdline, CmdlineKept)]>>
             \o ChangeEntries(pids \ {pid}, snapshot)

\* one turn of the while loop after its sleep, lines 688-723: the current
\* snapshot, the births and deaths against the preceding snapshot, and the
\* preceding snapshot replaced by the current one
MonitorCheck(l, check_interval, table) ==
    LET current_processes == Snapshot(table)
        new_pids == DOMAIN current_processes \ DOMAIN l.initial_processes
        terminated_pids == DOMAIN l.initial_processes \ DOMAIN current_processes
    IN  [l EXCEPT
            !.new_processes = @ \o ChangeEntries(new_pids, current_processes),
            !.terminated_processes =
                @ \o ChangeEntries(terminated_pids, l.initial_processes),
            !.initial_processes = current_processes,
            !.elapsed = @ + check_interval,
            !.checks = @ + 1]

\* the while condition of line 685: datetime.now() < end_time
BeforeDeadline(l, duration_seconds) == l.elapsed < duration_seconds

\* the dict returned at lines 725-742
MonitorResult(l, a) ==
    [status |-> "success",
     summary |-> [duration_seconds |-> a.duration_seconds,
                  check_interval |-> a.check_interval,
                  total_new_processes |-> Len(l.new_processes),
                  total_terminated_processes |-> Len(l.terminated_processes)],
     changes |-> [new_processes |-> l.new_processes,
                  terminated_processes |-> l.terminated_processes]]

\* lines 682-749, one step per resumption of the coroutine.  At
\* "mon_deadline": start_time, then end_time, whose right-hand side raises
\* AttributeError when datetime.timedelta does not resolve, and the
\* except-Exception handler of lines 744-749 returns the error dict;
\* otherwise the while condition is tested and the call either sleeps or
\* returns.  At "mon_sleep": the sleep of line 686 is over, one check is made,
\* and the while condition is tested again.
MonitorDeadline ==
    /\ op = "monitor_process_changes"
    /\ pc \in {"mon_deadline", "mon_sleep"}
    /\ IF pc = "mon_deadline"
       THEN IF ~TimedeltaResolves
            THEN /\ pc' = "done"
                 /\ loc' = loc
                 /\ result' = ErrorResult
            ELSE IF BeforeDeadline(loc, args.duration_seconds)
            THEN /\ pc' = "mon_sleep"
                 /\ loc' = loc
                 /\ result' = result
            ELSE /\ pc' = "done"
                 /\ loc' = loc
                 /\ result' = MonitorResult(loc, args)
       ELSE LET l == MonitorCheck(loc, args.check_interval, procs)
            IN  /\ loc' = l
                /\ IF BeforeDeadline(l, args.duration_seconds)
                   THEN /\ pc' = "mon_sleep"
                        /\ result' = result
                   ELSE /\ pc' = "done"
                        /\ result' = MonitorResult(l, args)
    /\ UNCHANGED <<self, psutil, procs, op, args>>

\* the operating system, while a monitor call is in flight: a process starts
OsSpawn(p, k) ==
    /\ op = "monitor_process_changes"
    /\ pc # "done"
    /\ p \notin Pids(procs)
    /\ procs' = Insert(procs, MkProc(p, 1, k))
    /\ loc' = [loc EXCEPT !.static = FALSE]
    /\ UNCHANGED <<self, psutil, op, pc, args, result>>

\* the operating system, while a monitor call is in flight: a process exits
OsExit(p) ==
    /\ op = "monitor_process_changes"
    /\ pc # "done"
    /\ p \in Pids(procs)
    /\ procs' = Without(procs, p)
    /\ loc' = [loc EXCEPT !.static = FALSE]
    /\ UNCHANGED <<self, psutil, op, pc, args, result>>

\* the small process tables of processes 1..m, m <= n, in pid order: process
\* 1 is the child of 0, every other process a child of 1, each of some kind
RECURSIVE KindTables(_, _)
KindTables(n, kinds) ==
    IF n = 0 THEN {<<>>}
    ELSE LET rest == KindTables(n - 1, kinds)
         IN  rest \cup {Append(t, MkProc(n, IF n = 1 THEN 0 ELSE 1, k)) :
                          t \in {x \in rest : Len(x) = n - 1}, k \in kinds}

\* the kinds of process that come and go while a monitor call runs
MonKinds == {k \in ProcKinds : k.threads = 1}

\* lines 47-50: the agent's own state after construction; loops is the number
\* of _monitor_security_loop tasks that are running
InitSelf == [monitoring_active |-> FALSE, loops |-> 0, ended |-> FALSE]

\* the state of the psutil module: its timer, and the cache _pmap of
\* process_iter, which holds one Process object per pid; of an object the
\* model keeps what cpu_percent() left in it, the timer and the CPU time of
\* the process at the object's latest read
InitPsutil == [timer |-> 0, pmap |-> <<>>]

InitIdle ==
    /\ self = InitSelf
    /\ psutil = InitPsutil
    /\ op = "none"
    /\ pc = "idle"
    /\ args = NoArgs
    /\ loc = NoLoc
    /\ result = NoResult

\* the caller has taken the returned dict: the agent is idle again
Return ==
    /\ pc = "done"
    /\ op' = "none"
    /\ pc' = "idle"
    /\ args' = NoArgs
    /\ loc' = NoLoc
    /\ result' = NoResult
    /\ UNCHANGED <<self, psutil, procs>>

InitMon ==
    /\ procs \in KindTables(MaxPid, MonKinds)
    /\ InitIdle

NextMon ==
    \/ \E d \in 0..MaxDuration, i \in 1..MaxInterval : MonitorStart(d, i)
    \/ MonitorDeadline
    \/ \E p \in 1..MaxPid, k \in MonKinds : OsSpawn(p, k)
    \/ \E p \in 1..MaxPid : OsExit(p)
    \/ Return

SpecMon == InitMon /\ [][NextMon]_vars

MonitorDone == op = "monitor_process_changes" /\ pc = "done"

\* C1: a monitor_process_changes call over a window in which no process
\* started or exited returns a success result whose new_processes and
\* terminated_processes lists are both empty, for every duration >= 0 and
\* every check interval > 0.
C1_QuietWindowEmptyLists ==
    (MonitorDone /\ loc.static) =>
        /\ result.status = "success"
        /\ loc.new_processes = <<>>
        /\ loc.terminated_processes = <<>>

\* C2: a monitor_process_changes call over a window of positive duration
\* runs the loop {sleep, snapshot, diff against the preceding snapshot,
\* record births and deaths, previous := current} at least once before its
\* deadline ends it, and returns what the checks recorded in a success
\* result: no call over such a window ends without having made a check.
C2_ChecksDiffPrevious ==
    (MonitorDone /\ args.duration_seconds > 0) =>
        /\ loc.checks >= 1
        /\ result.status = "success"

(***************************************************************************)
(* check_cis_compliance (agent.py 337-367), _perform_cis_checks            *)
(* (1021-1087) and _run_system_command (1089-1107).                        *)
(***************************************************************************)
\* the ids of the hardcoded catalog of lines 1025-1064
cis_checks == <<"1.5.1.a", "1.5.1.b", "1.5.2", "1.5.3.a", "4.1.3">>

\* what running one verification command can come to: it exits with code 0,
\* exits with a nonzero code, exceeds the 10 s timeout of subprocess.run, or
\* cannot be executed at all (subprocess.run raises an OSError)
Outcomes == {"exit_zero", "exit_nonzero", "timeout", "cannot_execute"}

\* _run_system_command, lines 1091-1107: both except clauses return a dict
\* with exit_code -1, so no outcome leaves the function as an exception
RunSystemCommand(outcome) ==
    CASE outcome = "exit_zero" -> [raised |-> FALSE, exit_code |-> 0]
      [] outcome = "exit_nonzero" -> [raised |-> FALSE, exit_code |-> 1]
      [] outcome = "timeout" -> [raised |-> FALSE, exit_code |-> 0 - 1]
      [] outcome = "cannot_execute" -> [raised |-> FALSE, exit_code |-> 0 - 1]

\* the body of the for loop of _perform_cis_checks, lines 1067-1085: the
\* status is "error" only in the except clause
PerformCheck(id, outcome) ==
    LET r == RunSystemCommand(outcome)
    IN  IF r.raised
        THEN [id |-> id, status |-> "error"]
        ELSE [id |-> id, status |-> IF r.exit_code = 0 THEN "pass" ELSE "fail"]

\* a / b rounded to the nearest integer, ties to even (a >= 0, b > 0)
RoundDiv(a, b) ==
    LET q == a \div b
        r == a % b
    IN  IF 2 * r < b THEN q
        ELSE IF 2 * r > b THEN q + 1
        ELSE IF q % 2 = 0 THEN q ELSE q + 1

\* a mutant of ComplianceScore: passed // total * 100, the division truncated
ComplianceScoreFloorDiv(passed_checks, total_checks) ==
    IF total_checks > 0 THEN (passed_checks \div total_checks) * 100000 ELSE 0

\* lines 346 and 352: round(passed / total * 100, 2), in thousandths
ComplianceScore(passed_checks, total_checks) ==
    IF total_checks > 0 THEN 10 * RoundDiv(10000 * passed_checks, total_checks) ELSE 0

SelectStatus(checks, st) == SelectSeq(checks, LAMBDA c : c.status = st)

\* lines 344-360: the result dict of check_cis_compliance
ComplianceResult(compliance_checks) ==
    LET total_checks == Len(compliance_checks)
        passed_checks == Len(SelectStatus(compliance_checks, "pass"))
        failed_checks == SelectStatus(compliance_checks, "fail")
    IN  [status |-> "success",
         compliance_score |-> ComplianceScore(passed_checks, total_checks),
         total_checks |-> total_checks,
         passed_checks |-> passed_checks,
         failed_checks |-> Len(failed_checks),
         checks |-> Take(compliance_checks, 10),
         priority_failures |-> Take(failed_checks, 5)]

\* lines 339-342 and 1023-1064: the call begins; the catalog it runs is the
\* first n entries of cis_checks (n = 5 is the program's catalog, a smaller n
\* a synthetic one)
CisStart(benchmark_type, n) ==
    /\ pc = "idle"
    /\ op' = "check_cis_compliance"
    /\ args' = [benchmark_type |-> IF benchmark_type = "None" THEN "linux" ELSE benchmark_type]
    /\ loc' = [catalog |-> Take(cis_checks, n), checks |-> <<>>, ran |-> <<>>]
    /\ pc' = "cis_checks"
    /\ result' = NoResult
    /\ UNCHANGED <<self, psutil, procs>>

\* one iteration of the for loop of lines 1066-1085; ran is the record of
\* what each command came to, kept beside the checks
CisRunCheck(outcome) ==
    /\ op = "check_cis_compliance"
    /\ pc = "cis_checks"
    /\ Len(loc.checks) < Len(loc.catalog)
    /\ loc' = [loc EXCEPT
                 !.checks = Append(@, PerformCheck(loc.catalog[Len(loc.checks) + 1], outcome)),
                 !.ran = Append(@, outcome)]
    /\ UNCHANGED <<self, psutil, procs, op, pc, args, result>>

\* line 1087 and lines 344-360: the loop is over, the result is built
CisFinish ==
    /\ op = "check_cis_compliance"
    /\ pc = "cis_checks"
    /\ Len(loc.checks) = Len(loc.catalog)
    /\ result' = ComplianceResult(loc.checks)
    /\ pc' = "done"
    /\ UNCHANGED <<self, psutil, procs, op, args, loc>>

InitCis ==
    /\ procs = <<>>
    /\ InitIdle

NextCis ==
    \/ \E b \in {"None", "linux"}, n \in 0..Len(cis_checks) : CisStart(b, n)
    \/ \E o \in Outcomes : CisRunCheck(o)
    \/ CisFinish
    \/ Return

SpecCis == InitCis /\ [][NextCis]_vars

CisDone == op = "check_cis_compliance" /\ pc = "done"

CisRunning == op = "check_cis_compliance" /\ pc \in {"cis_checks", "done"}

\* C3: every check that was run is in the list, with status pass when its
\* command exited with code 0, fail when it exited nonzero, and error when
\* it timed out or could not be executed; a timed-out check is never
\* reported as fail or pass.
C3_TimeoutIsError ==
    CisRunning =>
        /\ Len(loc.checks) = Len(loc.ran)
        /\ \A i \in 1..Len(loc.checks) :
            /\ loc.ran[i] = "exit_zero" => loc.checks[i].status = "pass"
            /\ loc.ran[i] = "exit_nonzero" => loc.checks[i].status = "fail"
            /\ loc.ran[i] \in {"timeout", "cannot_execute"} => loc.checks[i].status = "error"

\* the checks of the finished call whose command exited with code 0
PassedRuns == {i \in 1..Len(loc.ran) : loc.ran[i] = "exit_zero"}

\* C4 as stated: the returned score is exactly 100 * passed / total over all
\* checks of the catalog, lies within [0, 100], is 75.0 for 4 checks of which
\* 3 pass, and is 0 for an empty catalog.
C4_ScoreExact ==
    CisDone =>
        /\ result.compliance_score * Len(loc.catalog) = 100000 * Cardinality(PassedRuns)
        /\ result.compliance_score >= 0 /\ result.compliance_score <= 100000
        /\ (Len(loc.catalog) = 4 /\ Cardinality(PassedRuns) = 3) => result.compliance_score = 75000
        /\ Len(loc.catalog) = 0 => result.compliance_score = 0

\* C4 amended: the returned score is 100 * passed / total over all checks of
\* the catalog rounded to two decimals (a multiple of 0.01 no further than
\* 0.005 from the quotient), lies within [0, 100], is 75.0 for 4 checks of
\* which 3 pass, and is 0 for an empty catalog.
C4_ScoreRounded ==
    CisDone =>
        /\ result.compliance_score % 10 = 0
        /\ LET d == result.compliance_score * Len(loc.catalog) - 100000 * Cardinality(PassedRuns)
           IN  2 * d <= 10 * Len(loc.catalog) /\ 2 * d >= 0 - 10 * Len(loc.catalog)
        /\ result.compliance_score >= 0 /\ result.compliance_score <= 100000
        /\ (Len(loc.catalog) = 4 /\ Cardinality(PassedRuns) = 3) => result.compliance_score = 75000
        /\ Len(loc.catalog) = 0 => result.compliance_score = 0

\* a catalog of 4 checks of which 3 passed and 1 failed has been scored 75.0
C4_Witness ==
    /\ CisDone
    /\ Len(loc.catalog) = 4
    /\ Cardinality(PassedRuns) = 3
    /\ \E i \in 1..4 : loc.ran[i] = "exit_nonzero"
    /\ result.compliance_score = 75000
    /\ result.total_checks = 4 /\ result.passed_checks = 3

(***************************************************************************)
(* list_processes (agent.py 96-334).  An argument passed as None is a      *)
(* field the args record does not have.                                    *)
(***************************************************************************)
Has(a, f) == f \in DOMAIN a

\* a mutant of ClampInterval: the interval is used as it is given
GivenInterval(a) == IF Has(a, "cpu_interval") THEN a.cpu_interval ELSE 500

\* line 123: max(0.1, min(5.0, cpu_interval or 0.5)), in milliseconds
ClampInterval(a) ==
    LET given == IF Has(a, "cpu_interval") /\ a.cpu_interval # 0 THEN a.cpu_interval ELSE 500
    IN  Max(100, Min(5000, given))

\* line 125: the limit of snapshot mode when limit is None
SnapshotNoneLimit == 50

\* line 137: what snapshot mode makes of a limit of 0 (limit = limit or 50)
SnapshotLimit == 50

\* lines 123-144: the parameters the rest of the call works with
EffectiveInterval(a) ==
    IF a.analysis_mode = "snapshot" THEN 100
    ELSE IF a.analysis_mode = "cpu_focus" THEN Max(2000, ClampInterval(a))
    ELSE ClampInterval(a)

EffectiveLimit(a) ==
    LET l == IF Has(a, "limit") THEN a.limit
             ELSE IF a.analysis_mode = "snapshot" THEN SnapshotNoneLimit ELSE 0
    IN  IF a.analysis_mode = "snapshot" /\ l = 0 THEN SnapshotLimit ELSE l

EffectiveSortBy(a) ==
    IF Has(a, "sort_by") THEN a.sort_by
    ELSE IF a.analysis_mode = "snapshot" THEN "pid" ELSE "cpu"

\* round(rss / 1024 / 1024, 1), in tenths of a megabyte
RoundMb(bytes) == RoundDiv(bytes * 10, MiB)

\* a mutant of SkippedByCpuFocus: only a rate of zero is skipped
SkippedWhenZero(mode, cpu_percent) == mode = "cpu_focus" /\ cpu_percent <= 0

\* line 166: whether cpu_focus mode skips the process
SkippedByCpuFocus(mode, cpu_percent) == mode = "cpu_focus" /\ cpu_percent <= 10

\* lines 170-180: a literal zero of a process that is visibly alive becomes 0.1
ActivityAdjusted(mode, proc) ==
    IF proc.cpu = 0 /\ mode \in {"standard", "comprehensive"}
       /\ (proc.threads > 1 \/ proc.fds > 10 \/ proc.rss > 100 * MiB)
    THEN 100
    ELSE proc.cpu

\* lines 183-225: the process_info dict of one process (the fields that hold
\* the time of the call, create_time, running_time, id and timestamp, are
\* left out)
ProcessInfo(mode, proc) ==
    LET cpu_percent == ActivityAdjusted(mode, proc)
        base == [pid |-> proc.pid,
                 name |-> proc.name,
                 cmdline |-> JoinSpace(proc.cmdline),
                 username |-> proc.username,
                 cpu_percent |-> IF mode = "cpu_focus" THEN cpu_percent ELSE Round2(cpu_percent),
                 memory_percent |-> Round2(proc.mem)]
        basic == IF mode # "snapshot"
                 THEN [status |-> proc.status, ppid |-> proc.ppid]
                 ELSE [type |-> "process_analysis"]
        enhanced == IF mode \in {"comprehensive", "cpu_focus"}
                    THEN [num_threads |-> proc.threads,
                          num_fds |-> proc.fds,
                          memory_rss_mb |-> RoundMb(proc.rss),
                          memory_vms_mb |-> RoundMb(proc.vms)]
                    ELSE <<>>
    IN  base @@ basic @@ enhanced

\* the None that process_iter stores in proc.info for a numeric field the
\* process was denied (line 149), and what a denied cpu_percent() stands as
None == -1

\* the same None in a field that otherwise holds a string
NoneStr == <<"None">>

\* lines 149-154: the first pass keeps the processes whose cpu_percent() does
\* not raise AccessDenied
FirstPass(table) == SelectSeq(table, LAMBDA q : q.cpu # None)

\* line 163: cpu_percent() raises NoSuchProcess for a process that has exited
\* since the first pass, and line 229 passes over it
StillRunning(process_objects, table) ==
    SelectSeq(process_objects, LAMBDA q : q.pid \in Pids(table))

\* line 189: round(None, 2) raises TypeError, which the except clause of
\* line 229 does not name
SecondPassRaises(mode, process_objects) ==
    \E i \in 1..Len(process_objects) :
        /\ ~SkippedByCpuFocus(mode, process_objects[i].cpu)
        /\ process_objects[i].mem = None

\* line 237: None.lower() raises AttributeError
SortRaises(sort_by, process_objects) ==
    /\ sort_by = "name"
    /\ \E i \in 1..Len(process_objects) : process_objects[i].name = NoneStr

\* lines 160-230: the second pass over process_objects
RECURSIVE SecondPass(_, _)
SecondPass(mode, process_objects) ==
    IF process_objects = <<>> THEN <<>>
    ELSE LET proc == Head(process_objects)
             rest == SecondPass(mode, Tail(process_objects))
         IN  IF SkippedByCpuFocus(mode, proc.cpu) THEN rest
             ELSE <<ProcessInfo(mode, proc)>> \o rest

\* lines 233-239: sort_key_map
SortKeys == {"cpu", "memory", "pid", "name", "memory_rss"}

\* key(x) < key(y) under sort_key_map[sort_by]
KeyLess(sort_by, x, y) ==
    CASE sort_by = "cpu" -> x.cpu_percent < y.cpu_percent
      [] sort_by = "memory" -> x.memory_percent < y.memory_percent
      [] sort_by = "pid" -> x.pid < y.pid
      [] sort_by = "name" -> StrLess(Lower(x.name), Lower(y.name))
      [] sort_by = "memory_rss" ->
            (IF Has(x, "memory_rss_mb") THEN x.memory_rss_mb ELSE 0)
              < (IF Has(y, "memory_rss_mb") THEN y.memory_rss_mb ELSE 0)

\* line 242: reverse_sort
ReverseSort(sort_by) == sort_by \in {"cpu", "memory", "memory_rss"}

\* whether x has to come before y in the sorted list
Before(sort_by, x, y) ==
    IF ReverseSort(sort_by) THEN KeyLess(sort_by, y, x) ELSE KeyLess(sort_by, x, y)

\* x put into a sorted list behind everything it does not have to precede
RECURSIVE InsertSorted(_, _, _)
InsertSorted(sort_by, sorted, x) ==
    IF sorted = <<>> THEN <<x>>
    ELSE IF Before(sort_by, x, Head(sorted)) THEN <<x>> \o sorted
    ELSE <<Head(sorted)>> \o InsertSorted(sort_by, Tail(sorted), x)

\* list.sort(key=..., reverse=...): stable, also when reversed
RECURSIVE SortInto(_, _, _)
SortInto(sort_by, sorted, rest) ==
    IF rest = <<>> THEN sorted
    ELSE SortInto(sort_by, InsertSorted(sort_by, sorted, Head(rest)), Tail(rest))

\* lines 241-243: an unknown sort_by leaves the list as collected
SortProcesses(sort_by, processes) ==
    IF sort_by \in SortKeys THEN SortInto(sort_by, <<>>, processes) ELSE processes

RECURSIVE SumCpu(_)
SumCpu(processes) ==
    IF processes = <<>> THEN 0 ELSE Head(processes).cpu_percent + SumCpu(Tail(processes))

\* a mutant of Paginate: the page is cut at limit from the start of the
\* list, not from offset
PaginateFromStart(processes, offset, limit) ==
    IF limit > 0 THEN Drop(Take(processes, limit), offset) ELSE Drop(processes, offset)

\* lines 256-260: the slice returned when include_all is not set
Paginate(processes, offset, limit) ==
    LET paginated_processes == Drop(processes, offset)
    IN  IF limit > 0 THEN Take(paginated_processes, limit) ELSE paginated_processes

\* a mutant of HasMore: the page is taken to be limit records long
HasMoreByLimit(processes, offset, limit, returned_processes) ==
    Len(processes) > offset + limit

\* line 267
HasMore(processes, offset, limit, returned_processes) ==
    Len(processes) > offset + Len(returned_processes)

\* lines 232-327: sorting, the summary, pagination and the response
ListResponse(a, interval, limit, sort_by, collected) ==
    LET mode == a.analysis_mode
        processes == SortProcesses(sort_by, collected)
        total_processes == Len(processes)
        high_cpu_count == Len(SelectSeq(processes, LAMBDA q : q.cpu_percent > 5000))
        high_memory_count == Len(SelectSeq(processes, LAMBDA q : q.memory_percent > 5000))
        active_processes ==
            Len(SelectSeq(processes, LAMBDA q : q.cpu_percent > 0
                        \/ (IF Has(q, "num_threads") THEN q.num_threads ELSE 0) > 1))
        returned_processes ==
            IF a.include_all THEN processes ELSE Paginate(processes, a.offset, limit)
        pagination_info ==
            IF a.include_all
            THEN [showing_all |-> TRUE, total_returned |-> Len(processes)]
            ELSE [showing_all |-> FALSE,
                  offset |-> a.offset,
                  limit |-> limit,
                  total_returned |-> Len(returned_processes),
                  has_more |-> HasMore(processes, a.offset, limit, returned_processes)]
        response ==
            [status |-> "success",
             analysis_mode |-> mode,
             measurement_details |-> [cpu_interval_seconds |-> interval,
                                      sort_criteria |-> sort_by,
                                      total_processes_found |-> total_processes],
             pagination |-> pagination_info,
             summary |-> [high_cpu_processes |-> high_cpu_count,
                          high_memory_processes |-> high_memory_count,
                          active_processes |-> active_processes],
             processes |-> returned_processes]
    IN  CASE mode = "snapshot" ->
               [total_processes |-> total_processes,
                summary |-> [found_running_processes |-> total_processes]] @@ response
          [] mode = "comprehensive" ->
               response @@
               [comprehensive_analysis |->
                  [top_cpu_consumers |-> Take(SortProcesses("cpu", processes), 5),
                   top_memory_consumers |-> Take(SortProcesses("memory", processes), 5)]]
          [] mode = "cpu_focus" ->
               response @@
               [cpu_analysis |->
                  [processes_with_measurable_cpu |-> total_processes,
                   high_cpu_processes |-> high_cpu_count,
                   total_cpu_from_returned_processes |-> Round2(SumCpu(returned_processes))]]
          [] OTHER -> response

\* the whole call on an unchanging process table
ListProcesses(a, table) ==
    ListResponse(a, EffectiveInterval(a), EffectiveLimit(a), EffectiveSortBy(a),
                 SecondPass(a.analysis_mode, table))

\* lines 121-155: the parameters are set and the first pass collects the
\* Process objects, each with the info process_iter read for it, and makes
\* the first cpu_percent() read of each; the call then sleeps (line 157)
ListStart(a) ==
    /\ pc = "idle"
    /\ op' = "list_processes"
    /\ args' = a
    /\ loc' = [cpu_interval |-> EffectiveInterval(a),
               limit |-> EffectiveLimit(a),
               sort_by |-> EffectiveSortBy(a),
               process_objects |-> FirstPass(procs)]
    /\ pc' = "list_sleep"
    /\ result' = NoResult
    /\ UNCHANGED <<self, psutil, procs>>

\* lines 159-334: the sleep is over; the second pass, the sort, the summary,
\* pagination and the response, or the error dict of lines 329-334 when the
\* second pass or the sort raises
ListFinish ==
    /\ op = "list_processes"
    /\ pc = "list_sleep"
    /\ LET running == StillRunning(loc.process_objects, procs)
       IN  result' =
             IF SecondPassRaises(args.analysis_mode, running)
                  \/ SortRaises(loc.sort_by, SelectSeq(running, LAMBDA q :
                                    ~SkippedByCpuFocus(args.analysis_mode, q.cpu)))
             THEN ErrorResult
             ELSE ListResponse(args, loc.cpu_interval, loc.limit, loc.sort_by,
                               SecondPass(args.analysis_mode, running))
    /\ pc' = "done"
    /\ UNCHANGED <<self, psutil, procs, op, args, loc>>

\* a large table of n processes, the kinds following one another in an order
\* that seed sets
ProcKindSeq == CHOOSE q \in [1..Cardinality(ProcKinds) -> ProcKinds] : Range(q) = ProcKinds

BigTable(n, seed) ==
    [i \in 1..n |-> MkProc(i, IF i = 1 THEN 0 ELSE 1,
                           ProcKindSeq[((i * seed) % Cardinality(ProcKinds)) + 1])]

\* enough processes for two full pages and one more, and for more than
\* snapshot mode's 50
BigTables ==
    {BigTable(n, seed) : n \in {2 * PageLimit + 1, SnapshotLimit + 2}, seed \in {1, 3}}

Modes == {"standard", "comprehensive", "snapshot", "cpu_focus"}

Optional(f, values) == {<<>>} \cup {[x \in {f} |-> v] : v \in values}

ListArgs ==
    {b @@ l @@ sb @@ ci :
        b \in [analysis_mode : Modes,
               offset : (0..MaxOffset) \cup {PageLimit},
               include_all : BOOLEAN],
        l \in Optional("limit", (0..MaxLimit) \cup {PageLimit}),
        sb \in Optional("sort_by", SortKeys \cup {"unknown"}),
        ci \in Optional("cpu_interval", {9000})}

InitList ==
    /\ procs \in KindTables(MaxListed, ProcKinds) \cup BigTables
    /\ InitIdle

NextList ==
    \/ \E a \in ListArgs : ListStart(a)
    \/ ListFinish
    \/ Return

SpecList == InitList /\ [][NextList]_vars

ListDone == op = "list_processes" /\ pc = "done"

\* the processes of the table that the call's mode does not skip
Listed == SelectSeq(procs, LAMBDA q : ~SkippedByCpuFocus(args.analysis_mode, q.cpu))

PidsOf(records) == {records[i].pid : i \in 1..Len(records)}

\* C5: on an unchanging process table, with the same mode and sort_by, the
\* call with offset 0 and limit PageLimit and the call with offset PageLimit
\* and limit PageLimit return two slices with no record in common, whose
\* concatenation is the first 2 * PageLimit records of the include_all call,
\* in the same order.
C5_PagesConcatenate ==
    (ListDone /\ ~args.include_all /\ args.offset = 0
       /\ Has(args, "limit") /\ args.limit = PageLimit) =>
        LET first == result.processes
            second == ListProcesses([args EXCEPT !.offset = PageLimit], procs).processes
            all == ListProcesses([args EXCEPT !.include_all = TRUE], procs).processes
        IN  /\ PidsOf(first) \cap PidsOf(second) = {}
            /\ first \o second = Take(all, 2 * PageLimit)

\* a first page has been returned that a full second page and a further
\* record follow, in an order that is not the one of enumeration
C5_Witness ==
    /\ ListDone /\ ~args.include_all /\ args.offset = 0
    /\ Has(args, "limit") /\ args.limit = PageLimit
    /\ Len(result.processes) = PageLimit
    /\ Len(ListProcesses([args EXCEPT !.offset = PageLimit], procs).processes) = PageLimit
    /\ result.measurement_details.total_processes_found > 2 * PageLimit
    /\ \E i \in 1..(PageLimit - 1) : result.processes[i].pid > result.processes[i + 1].pid

\* C6: without include_all, has_more is true exactly when offset plus the
\* number of records returned is less than the number of records after
\* sorting (one per process the mode does not skip), for every offset >= 0
\* and limit >= 0; with include_all, offset and limit are ignored and every
\* record is returned.
C6_HasMore ==
    ListDone =>
        IF args.include_all
        THEN /\ Len(result.processes) = Len(Listed)
             /\ PidsOf(result.processes) = PidsOf(Listed)
             /\ result.pagination.showing_all
        ELSE /\ result.pagination.has_more
                  <=> (args.offset + Len(result.processes) < Len(Listed))
             /\ result.pagination.total_returned = Len(result.processes)
             /\ Len(result.processes) <= Len(Listed)

\* a page that ends before the list does, and one that reaches its end
C6_Witness ==
    /\ ListDone /\ ~args.include_all
    /\ args.offset > 0
    /\ Len(result.processes) > 0
    /\ result.pagination.has_more
    /\ args.offset + Len(result.processes) < Len(procs)

\* C7: with include_all unset and limit = 0 the call returns every sorted
\* record from position offset to the end, in every analysis mode.
C7_ZeroLimitUnlimited ==
    (ListDone /\ ~args.include_all /\ Has(args, "limit") /\ args.limit = 0) =>
        Len(result.processes) = Max(0, Len(Listed) - args.offset)

(***************************************************************************)
(* filter_processes (agent.py 536-651).                                    *)
(***************************************************************************)
\* fnmatch.fnmatch(name, pattern) on a POSIX system, for patterns of
\* literal characters, * and ?
RECURSIVE FnMatch(_, _)
FnMatch(name, pattern) ==
    IF pattern = <<>> THEN name = <<>>
    ELSE IF Head(pattern) = "*"
         THEN FnMatch(name, Tail(pattern))
              \/ (name # <<>> /\ FnMatch(Tail(name), pattern))
    ELSE IF name = <<>> THEN FALSE
    ELSE IF Head(pattern) = "?" THEN FnMatch(Tail(name), Tail(pattern))
    ELSE Head(name) = Head(pattern) /\ FnMatch(Tail(name), Tail(pattern))

\* needle in haystack, for two strings
Contains(haystack, needle) ==
    \E i \in 0..(Len(haystack) - Len(needle)) :
        SubSeq(haystack, i + 1, i + Len(needle)) = needle

\* a string argument that is neither None nor empty
Truthy(a, f) == Has(a, f) /\ a[f] # <<>>

\* lines 549-550
FilterLimitDefault == 50

FilterLimit(a) == IF Has(a, "limit") THEN a.limit ELSE FilterLimitDefault

\* lines 580-595: whether the process gets past every filter
PassesFilters(a, proc) ==
    /\ ~(Truthy(a, "name_pattern") /\ ~FnMatch(proc.name, a.name_pattern))
    /\ ~(Truthy(a, "username") /\ Lower(proc.username) # Lower(a.username))
    /\ ~(Has(a, "min_cpu") /\ proc.cpu < a.min_cpu)
    /\ ~(Has(a, "max_cpu") /\ proc.cpu > a.max_cpu)
    /\ ~(Has(a, "min_memory") /\ proc.mem < a.min_memory)
    /\ ~(Has(a, "max_memory") /\ proc.mem > a.max_memory)
    /\ ~(Truthy(a, "status") /\ Lower(proc.status) # Lower(a.status))
    /\ ~(Truthy(a, "cmdline_contains")
           /\ ~Contains(Lower(JoinSpace(proc.cmdline)), Lower(a.cmdline_contains)))

\* line 601: cmdline[:200]
CmdlineShown == 200

\* lines 598-617: the process_data dict (create_time is left out)
ProcessData(proc) ==
    [pid |-> proc.pid,
     name |-> proc.name,
     cmdline |-> Take(JoinSpace(proc.cmdline), CmdlineShown),
     username |-> proc.username,
     status |-> proc.status,
     cpu_percent |-> Round2(proc.cpu),
     memory_percent |-> Round2(proc.mem),
     num_threads |-> proc.threads,
     memory_rss_mb |-> RoundMb(proc.rss),
     ppid |-> proc.ppid]

\* lines 621-622: the test made after a match has been appended
ScanStops(filtered_processes, limit) == Len(filtered_processes) >= limit

\* a mutant of Matches: the filters are ORed, not ANDed
MatchesAny(a, proc) ==
    \/ (Truthy(a, "name_pattern") /\ FnMatch(proc.name, a.name_pattern))
    \/ (Truthy(a, "username") /\ Lower(proc.username) = Lower(a.username))
    \/ (Has(a, "min_cpu") /\ proc.cpu >= a.min_cpu)
    \/ (Has(a, "max_cpu") /\ proc.cpu <= a.max_cpu)
    \/ (Has(a, "min_memory") /\ proc.mem >= a.min_memory)
    \/ (Has(a, "max_memory") /\ proc.mem <= a.max_memory)
    \/ (Truthy(a, "status") /\ Lower(proc.status) = Lower(a.status))
    \/ (Truthy(a, "cmdline_contains")
          /\ Contains(Lower(JoinSpace(proc.cmdline)), Lower(a.cmdline_contains)))
    \/ PassesFilters(a, proc)

\* lines 579-597: the process matches all filters
Matches(a, proc) == PassesFilters(a, proc)

\* lines 570-625: the scan, from the processes still to be enumerated
RECURSIVE FilterScan(_, _, _)
FilterScan(a, table, st) ==
    IF table = <<>> THEN st
    ELSE LET proc == Head(table)
             scanned == [st EXCEPT !.total_scanned = @ + 1]
         IN  IF ~Matches(a, proc) THEN FilterScan(a, Tail(table), scanned)
             ELSE LET found == [scanned EXCEPT
                                  !.filtered_processes = Append(@, ProcessData(proc))]
                  IN  IF ScanStops(found.filtered_processes, FilterLimit(a))
                      THEN found
                      ELSE FilterScan(a, Tail(table), found)

\* lines 561-568
FiltersApplied(a) ==
    {f \in {"name_pattern", "username", "status", "cmdline_contains"} : Truthy(a, f)}
      \cup {f \in {"min_cpu", "max_cpu", "min_memory", "max_memory"} : Has(a, f)}

\* lines 548-644: the whole call, which never suspends
FilterResult(a, table) ==
    LET st == FilterScan(a, table, [total_scanned |-> 0, filtered_processes |-> <<>>])
    IN  [status |-> "success",
         filter_criteria |-> a @@ [limit |-> FilterLimit(a)],
         filter_stats |-> [total_scanned |-> st.total_scanned,
                           filters_applied |-> FiltersApplied(a),
                           matches_found |-> Len(st.filtered_processes)],
         processes |-> SortProcesses("cpu", st.filtered_processes)]

FilterProcesses(a) ==
    /\ pc = "idle"
    /\ op' = "filter_processes"
    /\ args' = a
    /\ loc' = NoLoc
    /\ result' = FilterResult(a, procs)
    /\ pc' = "done"
    /\ UNCHANGED <<self, psutil, procs>>

FilterArgs ==
    {np @@ un @@ c1 @@ c2 @@ m1 @@ m2 @@ sv @@ cc @@ l :
        np \in Optional("name_pattern", {<<"s", "*">>, <<"?", "h">>}),
        un \in Optional("username", {<<"r">>}),
        c1 \in Optional("min_cpu", {8}),
        c2 \in Optional("max_cpu", {8}),
        m1 \in Optional("min_memory", {1234}),
        m2 \in Optional("max_memory", {5008}),
        sv \in Optional("status", {<<"s">>}),
        cc \in Optional("cmdline_contains", {<<"H", " ", "x">>}),
        l \in Optional("limit", 0..MaxFilterLimit)}

InitFilter ==
    /\ procs \in KindTables(MaxFiltered, ProcKinds)
    /\ InitIdle

NextFilter ==
    \/ \E a \in FilterArgs : FilterProcesses(a)
    \/ Return

SpecFilter == InitFilter /\ [][NextFilter]_vars

FilterDone == op = "filter_processes" /\ pc = "done"

ProcOfPid(p) == CHOOSE x \in Range(procs) : x.pid = p

EqualIgnoringCase(x, y) ==
    Len(x) = Len(y) /\ \A i \in 1..Len(x) : LowerChar(x[i]) = LowerChar(y[i])

\* what the name globs that are tried stand for
GlobHolds(name, pattern) ==
    CASE pattern = <<"s", "*">> -> name # <<>> /\ name[1] = "s"
      [] pattern = <<"?", "h">> -> Len(name) = 2 /\ name[2] = "h"

\* the process meets every predicate that was supplied, on the values
\* sampled for it
MeetsCriteria(proc) ==
    /\ Has(args, "name_pattern") => GlobHolds(proc.name, args.name_pattern)
    /\ Has(args, "username") => EqualIgnoringCase(proc.username, args.username)
    /\ Has(args, "min_cpu") => proc.cpu >= args.min_cpu
    /\ Has(args, "max_cpu") => proc.cpu <= args.max_cpu
    /\ Has(args, "min_memory") => proc.mem >= args.min_memory
    /\ Has(args, "max_memory") => proc.mem <= args.max_memory
    /\ Has(args, "status") => EqualIgnoringCase(proc.status, args.status)
    /\ Has(args, "cmdline_contains") =>
          \E i \in 1..Len(JoinSpace(proc.cmdline)) :
              /\ i + Len(args.cmdline_contains) - 1 <= Len(JoinSpace(proc.cmdline))
              /\ \A j \in 1..Len(args.cmdline_contains) :
                    LowerChar(JoinSpace(proc.cmdline)[i + j - 1])
                      = LowerChar(args.cmdline_contains[j])

\* the processes of the table that meet the criteria, in enumeration order
Matching == SelectSeq(procs, MeetsCriteria)

ListedAll ==
    ListProcesses([analysis_mode |-> "standard", offset |-> 0, limit |-> 50,
                   sort_by |-> "cpu", cpu_interval |-> 500, include_all |-> TRUE],
                  procs).processes

C9_AtMostLimit ==
    FilterDone =>
        LET limit == result.filter_criteria.limit
        IN  /\ Len(result.processes) <= limit
            /\ PidsOf(result.processes) = PidsOf(Take(Matching, limit))
            /\ \A i \in 1..(Len(result.processes) - 1) :
                  result.processes[i].cpu_percent >= result.processes[i + 1].cpu_percent

(***************************************************************************)
(* get_process_tree (agent.py 450-533).                                    *)
(***************************************************************************)
\* lines 453-454
DefaultMaxDepth == 3

\* a mutant of TooDeep: the recursion is cut one level later
TooDeepLater(current_depth, max_depth) == current_depth > max_depth + 1

\* a mutant of TooDeep: the recursion is cut two levels later
TooDeepByTwo(current_depth, max_depth) == current_depth > max_depth + 2

\* line 459
TooDeep(current_depth, max_depth) == current_depth > max_depth

\* lines 466-483, without the children
ProcData(proc, current_depth, show_threads) ==
    [pid |-> proc.pid,
     name |-> proc.name,
     cmdline |-> JoinSpace(proc.cmdline),
     username |-> proc.username,
     status |-> proc.status,
     depth |-> current_depth,
     cpu_percent |-> Round2(proc.cpu),
     memory_percent |-> Round2(proc.mem)]
      @@ (IF show_threads THEN [num_threads |-> proc.threads] ELSE <<>>)

\* lines 458-489: build_tree(parent_pid, current_depth); every level
\* enumerates the whole table again
RECURSIVE BuildTree(_, _, _, _, _)
BuildTree(table, max_depth, show_threads, parent_pid, current_depth) ==
    IF TooDeep(current_depth, max_depth) THEN <<>>
    ELSE LET of_parent == SelectSeq(table, LAMBDA q : q.ppid = parent_pid)
             children ==
                 [i \in 1..Len(of_parent) |->
                     ProcData(of_parent[i], current_depth, show_threads)
                       @@ [children |-> BuildTree(table, max_depth, show_threads,
                                                  of_parent[i].pid, current_depth + 1)]]
         IN  SortProcesses("pid", children)

\* lines 491-501: no root_pid given
RECURSIVE RootProcesses(_, _, _, _)
RootProcesses(table, rest, max_depth, show_threads) ==
    IF rest = <<>> THEN <<>>
    ELSE LET proc == Head(rest)
             tree == IF proc.ppid \in {0, 1} \/ proc.pid = 1
                     THEN BuildTree(table, max_depth, show_threads, proc.pid, 0)
                     ELSE <<>>
         IN  tree \o RootProcesses(table, Tail(rest), max_depth, show_threads)

\* lines 505-509
RECURSIVE CountNodes(_)
CountNodes(tree) ==
    IF tree = <<>> THEN 0
    ELSE 1 + CountNodes(Head(tree).children) + CountNodes(Tail(tree))

\* lines 452-526: the whole call, which never suspends
TreeResult(a, table) ==
    LET max_depth == IF Has(a, "max_depth") THEN a.max_depth ELSE DefaultMaxDepth
        show_threads == IF Has(a, "show_threads") THEN a.show_threads ELSE FALSE
        tree_data == IF Has(a, "root_pid")
                     THEN BuildTree(table, max_depth, show_threads, a.root_pid, 0)
                     ELSE RootProcesses(table, table, max_depth, show_threads)
    IN  [status |-> "success",
         tree_params |-> a @@ [max_depth |-> max_depth, show_threads |-> show_threads],
         statistics |-> [total_processes |-> CountNodes(tree_data),
                         max_depth_reached |-> max_depth],
         process_tree |-> tree_data]

GetProcessTree(a) ==
    /\ pc = "idle"
    /\ op' = "get_process_tree"
    /\ args' = a
    /\ loc' = NoLoc
    /\ result' = TreeResult(a, procs)
    /\ pc' = "done"
    /\ UNCHANGED <<self, psutil, procs>>

\* the one kind of process the tables of the tree are made of
TreeKind == CHOOSE k \in ProcKinds : k.threads = 4

\* the tables of processes 1..m, m <= n, with every choice of parent pids in
\* 0..m: forests, but also processes that are their own parent and cycles
RECURSIVE ParentTables(_)
ParentTables(n) ==
    IF n = 0 THEN {<<>>}
    ELSE ParentTables(n - 1)
           \cup {[i \in 1..n |-> MkProc(i, pp[i], TreeKind)] : pp \in [1..n -> 0..n]}

TreeArgs ==
    {r @@ d @@ t :
        r \in Optional("root_pid", 0..MaxPid),
        d \in Optional("max_depth", 0..MaxDepth),
        t \in Optional("show_threads", BOOLEAN)}

InitTree ==
    /\ procs \in ParentTables(MaxPid)
    /\ InitIdle

NextTree ==
    \/ \E a \in TreeArgs : GetProcessTree(a)
    \/ Return

SpecTree == InitTree /\ [][NextTree]_vars

TreeDone == op = "get_process_tree" /\ pc = "done"

RECURSIVE AllNodes(_)
AllNodes(tree) ==
    IF tree = <<>> THEN <<>>
    ELSE <<Head(tree)>> \o AllNodes(Head(tree).children) \o AllNodes(Tail(tree))

\* every node of the tree carries its nesting level d in its depth field, and
\* so do the nodes below it
RECURSIVE DepthIsLevel(_, _)
DepthIsLevel(tree, d) ==
    \A i \in 1..Len(tree) :
        /\ tree[i].depth = d
        /\ DepthIsLevel(tree[i].children, d + 1)

\* C11: the call returns (the recursion ends) on every process table, also
\* with a process that is its own parent or with a cycle of parent links;
\* every node of the returned tree is at a depth <= max_depth, its depth
\* field is its nesting level, and the nodes at depth max_depth have no
\* children, whether or not those processes have children in the table.
C11_DepthBounded ==
    TreeDone =>
        /\ result.status = "success"
        /\ DepthIsLevel(result.process_tree, 0)
        /\ \A i \in 1..Len(AllNodes(result.process_tree)) :
              LET node == AllNodes(result.process_tree)[i]
              IN  /\ node.depth <= result.tree_params.max_depth
                  /\ node.depth = result.tree_params.max_depth => node.children = <<>>

\* a tree was returned from a table in which a process is its own parent,
\* and a node at depth max_depth has no children although its process is the
\* parent of a process of the table
C11_Witness ==
    /\ TreeDone
    /\ \E j \in 1..Len(procs) : procs[j].ppid = procs[j].pid
    /\ \E i \in 1..Len(AllNodes(result.process_tree)) :
          LET node == AllNodes(result.process_tree)[i]
          IN  /\ node.depth = result.tree_params.max_depth
              /\ node.depth >= 1
              /\ \E j \in 1..Len(procs) : procs[j].ppid = node.pid

\* C12: in a tree built from an explicit root_pid every pid occurs at most
\* once among all the nodes, also when the parent pids of the table contain
\* a cycle or a process that is its own parent.
C12_NoPidTwice ==
    (TreeDone /\ Has(args, "root_pid")) =>
        \A i, j \in 1..Len(AllNodes(result.process_tree)) :
            AllNodes(result.process_tree)[i].pid = AllNodes(result.process_tree)[j].pid
                => i = j

\* the processes lines 491-500 expand when no root_pid is given
IsRootProcess(proc) == proc.ppid \in {0, 1} \/ proc.pid = 1

\* C13: without a root_pid, the top-level nodes of the returned tree are the
\* processes whose parent pid is 0 or 1 and the process of pid 1: each of
\* them is a top-level node, and every top-level node is one of them.
C13_RootsAreTopLevel ==
    (TreeDone /\ ~Has(args, "root_pid") /\ result.tree_params.max_depth >= 0) =>
        /\ \A j \in 1..Len(procs) :
              IsRootProcess(procs[j]) =>
                  \E i \in 1..Len(result.process_tree) :
                      result.process_tree[i].pid = procs[j].pid
        /\ \A i \in 1..Len(result.process_tree) :
              IsRootProcess(ProcOfPid(result.process_tree[i].pid))

(***************************************************************************)
(* _analyze_behavior_patterns (agent.py 1109-1152).  The samples are in    *)
(* thousandths of a percent point, as every percentage of the model.       *)
(***************************************************************************)
RECURSIVE SumSeq(_)
SumSeq(values) == IF values = <<>> THEN 0 ELSE Head(values) + SumSeq(Tail(values))

RECURSIVE MaxSeq(_)
MaxSeq(values) ==
    IF Len(values) = 1 THEN Head(values) ELSE Max(Head(values), MaxSeq(Tail(values)))

\* round(sum(samples) / len(samples), 2), lines 1122 and 1135
RoundedAverage(samples) == 10 * RoundDiv(SumSeq(samples), 10 * Len(samples))

\* a quotient n / m of two counts as the fraction in lowest terms <<num, den>>
Quotient(n, m) ==
    LET g == CHOOSE d \in 1..Max(Max(n, m), 1) :
                 /\ n % d = 0 /\ m % d = 0
                 /\ \A e \in 1..Max(Max(n, m), 1) : (n % e = 0 /\ m % e = 0) => e <= d
    IN  <<n \div g, m \div g>>

\* a mutant of HighCpuUsage: the threshold itself already raises the flag
HighCpuUsageFrom(average_cpu) == average_cpu >= 30000

\* line 1128
HighCpuUsage(average_cpu) == average_cpu > 30000

\* line 1140
MemoryLeakPotential(memory_growth) == memory_growth > 10000

\* line 1149
FrequentProcessSpawning(children_spawned) == Len(children_spawned) > 3

\* lines 1119-1126: the empty dict when there is no cpu sample
CpuAnalysis(cpu_samples) ==
    IF cpu_samples = <<>> THEN <<>>
    ELSE [average_cpu |-> RoundedAverage(cpu_samples),
          max_cpu |-> MaxSeq(cpu_samples),
          cpu_spikes |-> Len(SelectSeq(cpu_samples, LAMBDA c : c > 50000)),
          cpu_trend |-> IF cpu_samples[Len(cpu_samples)] > cpu_samples[1]
                        THEN "increasing" ELSE "decreasing"]

\* lines 1132-1138: the empty dict when there is no memory sample
MemoryAnalysis(memory_samples) ==
    IF memory_samples = <<>> THEN <<>>
    ELSE [average_memory |-> RoundedAverage(memory_samples),
          max_memory |-> MaxSeq(memory_samples),
          memory_growth |-> IF Len(memory_samples) > 1
                            THEN memory_samples[Len(memory_samples)] - memory_samples[1]
                            ELSE 0]

\* lines 1144-1147
ProcessSpawning(behavior_data) ==
    [children_spawned |-> Len(behavior_data.children_spawned),
     spawning_rate |-> IF behavior_data.cpu_samples # <<>>
                       THEN Quotient(Len(behavior_data.children_spawned),
                                     Len(behavior_data.cpu_samples))
                       ELSE <<0, 1>>]

\* lines 1109-1152: behavioral_indicators in the order the flags are appended
AnalyzeBehaviorPatterns(behavior_data) ==
    LET cpu_samples == [i \in 1..Len(behavior_data.cpu_samples) |->
                            behavior_data.cpu_samples[i].cpu_percent]
        memory_samples == [i \in 1..Len(behavior_data.memory_samples) |->
                               behavior_data.memory_samples[i].memory_percent]
        cpu_analysis == CpuAnalysis(cpu_samples)
        memory_analysis == MemoryAnalysis(memory_samples)
    IN  [cpu_analysis |-> cpu_analysis,
         memory_analysis |-> memory_analysis,
         process_spawning |-> ProcessSpawning(behavior_data),
         behavioral_indicators |->
             (IF cpu_samples # <<>> /\ HighCpuUsage(cpu_analysis.average_cpu)
              THEN <<"high_cpu_usage">> ELSE <<>>)
             \o (IF memory_samples # <<>>
                     /\ MemoryLeakPotential(memory_analysis.memory_growth)
                 THEN <<"memory_leak_potential">> ELSE <<>>)
             \o (IF FrequentProcessSpawning(behavior_data.children_spawned)
                 THEN <<"frequent_process_spawning">> ELSE <<>>)]

\* the CPU readings of the series: psutil reports cpu_percent to one decimal
CpuReadings == {0, 30000, 30100, 60000}

\* the memory readings of the series
MemReadings == {5000, 15000, 15001}

\* the length of the run of equal readings in the long series
LongRun == 20

\* a long series of readings: LongRun times 30.0, then 30.1 once
LongSeries == [i \in 1..(LongRun + 1) |-> IF i <= LongRun THEN 30000 ELSE 30100]

SeriesUpTo(n, values) == UNION {[1..k -> values] : k \in 0..n}

\* the behavior_data dicts the function is applied to
BehaviorInputs ==
    {[cpu_samples |-> [i \in 1..Len(c) |-> [cpu_percent |-> c[i]]],
      memory_samples |-> [i \in 1..Len(m) |-> [memory_percent |-> m[i]]],
      children_spawned |-> [i \in 1..n |-> [child_pid |-> i]]] :
        c \in SeriesUpTo(MaxSamples, CpuReadings) \cup {LongSeries},
        m \in SeriesUpTo(MaxSamples, MemReadings),
        n \in 0..MaxSpawned}

\* one application of the function to a behavior_data dict
AnalyzePatterns(behavior_data) ==
    /\ pc = "idle"
    /\ op' = "_analyze_behavior_patterns"
    /\ args' = behavior_data
    /\ loc' = NoLoc
    /\ result' = AnalyzeBehaviorPatterns(behavior_data)
    /\ pc' = "done"
    /\ UNCHANGED <<self, psutil, procs>>

InitPatterns ==
    /\ procs = <<>>
    /\ InitIdle

NextPatterns ==
    \/ \E behavior_data \in BehaviorInputs : AnalyzePatterns(behavior_data)
    \/ Return

SpecPatterns == InitPatterns /\ [][NextPatterns]_vars

PatternsDone == op = "_analyze_behavior_patterns" /\ pc = "done"

\* whether the returned analysis carries the flag
Flagged(flag) ==
    \E i \in 1..Len(result.behavioral_indicators) : result.behavioral_indicators[i] = flag

\* the CPU and memory series the function was applied to, as plain numbers
CpuGiven == [i \in 1..Len(args.cpu_samples) |-> args.cpu_samples[i].cpu_percent]

MemGiven == [i \in 1..Len(args.memory_samples) |-> args.memory_samples[i].memory_percent]

\* what the claim says of everything but high_cpu_usage: the memory flag, the
\* spawning flag, the CPU trend and the spawn rate
C17_OtherThresholds ==
    /\ Flagged("memory_leak_potential")
          <=> (MemGiven # <<>> /\ MemGiven[Len(MemGiven)] - MemGiven[1] > 10000)
    /\ Flagged("frequent_process_spawning") <=> Len(args.children_spawned) > 3
    /\ CpuGiven # <<>> =>
          /\ result.cpu_analysis.cpu_trend = "increasing"
                <=> CpuGiven[Len(CpuGiven)] > CpuGiven[1]
          /\ result.process_spawning.spawning_rate[1] * Len(CpuGiven)
                = result.process_spawning.spawning_rate[2] * Len(args.children_spawned)
    /\ CpuGiven = <<>> =>
          /\ result.cpu_analysis = <<>>
          /\ result.process_spawning.spawning_rate = <<0, 1>>
    /\ \A i \in 1..Len(result.behavioral_indicators) :
          result.behavioral_indicators[i] \in
              {"high_cpu_usage", "memory_leak_potential", "frequent_process_spawning"}

\* C17 as stated: high_cpu_usage iff the average of the CPU samples is > 30,
\* memory_leak_potential iff last - first memory sample > 10,
\* frequent_process_spawning iff more than 3 children were recorded, the
\* trend "increasing" iff the final CPU sample is greater than the first,
\* the spawn rate children / samples, 0 without a sample.
C17_FlagsByThresholds ==
    PatternsDone =>
        /\ Flagged("high_cpu_usage")
              <=> (CpuGiven # <<>> /\ SumSeq(CpuGiven) > 30000 * Len(CpuGiven))
        /\ C17_OtherThresholds

\* C17 amended: high_cpu_usage iff the reported average_cpu, which is the
\* average of the CPU samples rounded to two decimals (at most 0.005 away
\* from the average), is > 30; the other flags, the trend and the spawn rate
\* as stated.
C17_FlagsByRoundedAverage ==
    PatternsDone =>
        /\ Flagged("high_cpu_usage")
              <=> (CpuGiven # <<>> /\ result.cpu_analysis.average_cpu > 30000)
        /\ CpuGiven # <<>> =>
              /\ result.cpu_analysis.average_cpu % 10 = 0
              /\ result.cpu_analysis.average_cpu * Len(CpuGiven) - SumSeq(CpuGiven)
                    \in (-5 * Len(CpuGiven))..(5 * Len(CpuGiven))
        /\ C17_OtherThresholds

\* the function was applied to a series whose average is above 30 and is
\* reported as 30.0, and to one that raises every flag
C17_Witness ==
    /\ PatternsDone
    /\ CpuGiven # <<>>
    /\ \/ /\ SumSeq(CpuGiven) > 30000 * Len(CpuGiven)
          /\ result.cpu_analysis.average_cpu = 30000
          /\ ~Flagged("high_cpu_usage")
       \/ /\ Flagged("high_cpu_usage")
          /\ Flagged("memory_leak_potential")
          /\ Flagged("frequent_process_spawning")

(***************************************************************************)
(* analyze_process_behavior (agent.py 752-851).  The coroutine is resumed  *)
(* at "an_info" (lines 759-778), then once per read of a tick: "an_cpu"    *)
(* (782-789), "an_mem" (791-795), "an_threads" (797-803), "an_children"    *)
(* (805-823) and "an_sleep" (825); the operating system moves in between.  *)
(* analysis_duration is always given.  The locals existed, sampling,      *)
(* gone_at, sleeps, previous_tick, recorded and expected are history      *)
(* variables: whether the pid was running at the call, whether line 782    *)
(* has been reached, the number of CPU samples when the process exited,    *)
(* the sleeps made, the child set of the latest tick, and what the latest  *)
(* tick recorded and what differs from the tick before it.                 *)
(***************************************************************************)
\* the kind of process the tables of the analysis are made of
AnalyzeKind == CHOOSE k \in ProcKinds : k.threads = 4

\* a mutant of NotFoundResult: the generic handler of lines 846-851 answers
GenericFailure == [status |-> "error", message |-> "Failed to analyze process behavior"]

\* the message of lines 841-845
NotFoundResult == [status |-> "error", message |-> "not found or terminated"]

\* proc.children(recursive=False): the pids whose parent is pid
ChildrenOf(table, pid) == {table[i].pid : i \in {j \in 1..Len(table) : table[j].ppid = pid}}

\* the children_spawned entries of lines 810-820 for a set of new children,
\* in ascending pid order
RECURSIVE ChildEntries(_, _)
ChildEntries(pids, table) ==
    IF pids = {} THEN <<>>
    ELSE LET child_pid == CHOOSE x \in pids : \A y \in pids : x <= y
             child_proc == CHOOSE x \in Range(table) : x.pid = child_pid
         IN  <<[child_pid |-> child_pid,
                child_name |-> child_proc.name,
                child_cmdline |-> JoinSpace(child_proc.cmdline)]>>
             \o ChildEntries(pids \ {child_pid}, table)

\* the behavior_data dict of lines 767-772 as the locals hold it
BehaviorData(l) ==
    [cpu_samples |-> l.cpu_samples,
     memory_samples |-> l.memory_samples,
     threads_count |-> l.threads_count,
     children_spawned |-> l.children_spawned]

\* a mutant of AnalysisResult: the exit of the process fails the call
AnalysisLost(l, a) == NotFoundResult

\* the dict returned at lines 830-839
AnalysisResult(l, a) ==
    [status |-> "success",
     process_info |-> l.initial_info,
     analysis_duration |-> a.analysis_duration,
     behavior_data |-> BehaviorData(l),
     behavioral_analysis |-> AnalyzeBehaviorPatterns(BehaviorData(l))]

\* line 757: psutil.Process(pid) raises NoSuchProcess for a pid that is not
\* running, and line 841 returns the not-found dict
AnalyzeStart(pid, analysis_duration) ==
    /\ pc = "idle"
    /\ op' = "analyze_process_behavior"
    /\ args' = [pid |-> pid, analysis_duration |-> analysis_duration]
    /\ loc' = [initial_info |-> <<>>,
               cpu_samples |-> <<>>,
               memory_samples |-> <<>>,
               threads_count |-> <<>>,
               children_spawned |-> <<>>,
               initial_children |-> {},
               i |-> 0,
               sleeps |-> 0,
               existed |-> pid \in Pids(procs),
               sampling |-> FALSE,
               gone_at |-> -1,
               previous_tick |-> {},
               recorded |-> {},
               expected |-> {}]
    /\ IF pid \in Pids(procs)
       THEN /\ pc' = "an_info"
            /\ result' = NoResult
       ELSE /\ pc' = "done"
            /\ result' = NotFoundResult
    /\ UNCHANGED <<self, psutil, procs>>

\* one resumption of the coroutine, lines 759-839
AnalyzeStep ==
    /\ op = "analyze_process_behavior"
    /\ pc \in {"an_info", "an_cpu", "an_mem", "an_threads", "an_children", "an_sleep"}
    /\ LET alive == args.pid \in Pids(procs)
           proc == CHOOSE x \in Range(procs) : x.pid = args.pid
       IN  CASE pc = "an_info" ->
                  \* lines 759-778; a process gone by now raises NoSuchProcess
                  IF alive
                  THEN /\ loc' = [loc EXCEPT
                                    !.initial_info = [name |-> proc.name,
                                                      cmdline |-> JoinSpace(proc.cmdline),
                                                      username |-> proc.username],
                                    !.initial_children = ChildrenOf(procs, args.pid),
                                    !.previous_tick = ChildrenOf(procs, args.pid),
                                    !.sampling = TRUE]
                       /\ pc' = "an_cpu"
                       /\ result' = result
                  ELSE /\ loc' = loc
                       /\ pc' = "done"
                       /\ result' = NotFoundResult
             [] pc = "an_cpu" ->
                  \* line 782 ends the loop, line 827 breaks out of it
                  IF loc.i < args.analysis_duration /\ alive
                  THEN /\ loc' = [loc EXCEPT !.cpu_samples =
                                      Append(@, [cpu_percent |-> proc.cpu])]
                       /\ pc' = "an_mem"
                       /\ result' = result
                  ELSE /\ loc' = loc
                       /\ pc' = "done"
                       /\ result' = AnalysisResult(loc, args)
             [] pc = "an_mem" ->
                  IF alive
                  THEN /\ loc' = [loc EXCEPT !.memory_samples =
                                      Append(@, [memory_percent |-> proc.mem,
                                                 memory_rss_mb |-> RoundMb(proc.rss)])]
                       /\ pc' = "an_threads"
                       /\ result' = result
                  ELSE /\ loc' = loc
                       /\ pc' = "done"
                       /\ result' = AnalysisResult(loc, args)
             [] pc = "an_threads" ->
                  \* lines 797-803: a failure here is passed over
                  /\ loc' = IF alive
                            THEN [loc EXCEPT !.threads_count =
                                      Append(@, [num_threads |-> proc.threads])]
                            ELSE loc
                  /\ pc' = "an_children"
                  /\ result' = result
             [] pc = "an_children" ->
                  \* lines 805-823: a failure here is passed over; line 821
                  \* is inside the if of line 809
                  /\ loc' = IF alive
                            THEN LET current_children == ChildrenOf(procs, args.pid)
                                     new_children == current_children \ loc.initial_children
                                 IN  [loc EXCEPT
                                        !.children_spawned =
                                            @ \o ChildEntries(new_children, procs),
                                        !.initial_children =
                                            IF new_children # {} THEN current_children ELSE @,
                                        !.recorded = new_children,
                                        !.expected = current_children \ loc.previous_tick,
                                        !.previous_tick = current_children]
                            ELSE loc
                  /\ pc' = "an_sleep"
                  /\ result' = result
             [] pc = "an_sleep" ->
                  /\ loc' = [loc EXCEPT !.i = @ + 1, !.sleeps = @ + 1]
                  /\ pc' = "an_cpu"
                  /\ result' = result
    /\ UNCHANGED <<self, psutil, procs, op, args>>

\* the operating system, while an analysis is in flight: a process starts as
\* a child of a running process; the pid of the analysed process is not
\* given out again
ChildStarts(p, parent) ==
    /\ op = "analyze_process_behavior"
    /\ pc # "done"
    /\ p \notin Pids(procs)
    /\ p # args.pid
    /\ parent \in Pids(procs)
    /\ procs' = Insert(procs, MkProc(p, parent, AnalyzeKind))
    /\ UNCHANGED <<self, psutil, op, pc, args, loc, result>>

\* the operating system, while an analysis is in flight: a process exits
ProcessExits(p) ==
    /\ op = "analyze_process_behavior"
    /\ pc # "done"
    /\ p \in Pids(procs)
    /\ procs' = Without(procs, p)
    /\ loc' = IF p = args.pid
              THEN [loc EXCEPT !.gone_at = Len(loc.cpu_samples)]
              ELSE loc
    /\ UNCHANGED <<self, psutil, op, pc, args, result>>

InitAnalyze ==
    /\ procs \in KindTables(MaxPid, {AnalyzeKind})
    /\ InitIdle

NextAnalyze ==
    \/ \E pid \in 1..MaxPid, d \in 0..MaxTicks : AnalyzeStart(pid, d)
    \/ AnalyzeStep
    \/ \E p \in 1..MaxPid, parent \in 1..MaxPid : ChildStarts(p, parent)
    \/ \E p \in 1..MaxPid : ProcessExits(p)
    \/ Return

SpecAnalyze == InitAnalyze /\ [][NextAnalyze]_vars

AnalyzeDone == op = "analyze_process_behavior" /\ pc = "done"

\* C14: a call on a pid that is not running when the call is made returns
\* the not-found error and makes no sampling tick: no CPU, memory, thread or
\* child sample is taken and no sleep is made.
C14_AbsentPidNoTicks ==
    (AnalyzeDone /\ ~loc.existed) =>
        /\ result.status = "error"
        /\ result.message = "not found or terminated"
        /\ BehaviorData(loc) = [cpu_samples |-> <<>>, memory_samples |-> <<>>,
                                threads_count |-> <<>>, children_spawned |-> <<>>]
        /\ loc.i = 0
        /\ loc.sleeps = 0

\* a call on a pid that is not running has returned while other processes run
C14_Witness ==
    /\ AnalyzeDone
    /\ ~loc.existed
    /\ procs # <<>>
    /\ args.analysis_duration >= 1

\* C15: no sample series ever holds more samples than analysis_duration;
\* once sampling has started the call returns status success with exactly
\* the samples collected; and when the process exits after sampling has
\* started, no CPU sample is taken after its exit and at most one sleep is
\* made after its last sample.
C15_BoundedAndPartial ==
    /\ op = "analyze_process_behavior" =>
          /\ Len(loc.cpu_samples) <= args.analysis_duration
          /\ Len(loc.memory_samples) <= args.analysis_duration
          /\ Len(loc.threads_count) <= args.analysis_duration
    /\ (AnalyzeDone /\ loc.sampling) =>
          /\ result.status = "success"
          /\ result.behavior_data = BehaviorData(loc)
          /\ loc.gone_at >= 0 =>
                /\ Len(loc.cpu_samples) = loc.gone_at
                /\ loc.sleeps <= loc.gone_at

\* the process exited in the middle of a tick, after its CPU sample and
\* before its memory sample, with ticks left to run, and the call returned
C15_Witness ==
    /\ AnalyzeDone
    /\ loc.sampling
    /\ loc.gone_at >= 1
    /\ loc.gone_at < args.analysis_duration
    /\ Len(loc.memory_samples) < Len(loc.cpu_samples)
    /\ result.status = "success"

\* C16: what a tick records as spawned is exactly the set of immediate
\* children present at that tick and absent from the child set of the tick
\* before it (before the first tick: the children at the start of the call).
C16_SpawnsAgainstPreviousTick ==
    op = "analyze_process_behavior" => loc.recorded = loc.expected

(***************************************************************************)
(* list_processes on a table with processes it is denied fields of, and    *)
(* with processes that exit while the call sleeps (agent.py 147-243).      *)
(***************************************************************************)
\* a process all of whose fields can be read
ReadableKind == CHOOSE k \in ProcKinds : k.threads = 4

\* processes the call is denied something of: memory_percent, name or
\* username comes back None from process_iter, or cpu_percent() raises
\* AccessDenied
DeniedKinds ==
    {[ReadableKind EXCEPT !.mem = None],
     [ReadableKind EXCEPT !.name = NoneStr],
     [ReadableKind EXCEPT !.username = NoneStr],
     [ReadableKind EXCEPT !.cpu = None]}

ChurnArgs ==
    {b @@ sb :
        b \in [analysis_mode : Modes, offset : {0}, include_all : BOOLEAN],
        sb \in Optional("sort_by", {"name"})}

\* the operating system, while a list_processes call sleeps at line 157: a
\* process exits
ListedExits(p) ==
    /\ op = "list_processes"
    /\ pc = "list_sleep"
    /\ p \in Pids(procs)
    /\ procs' = Without(procs, p)
    /\ UNCHANGED <<self, psutil, op, pc, args, loc, result>>

InitChurn ==
    /\ procs \in KindTables(MaxListed, {ReadableKind} \cup DeniedKinds)
    /\ InitIdle

NextChurn ==
    \/ \E a \in ChurnArgs : ListStart(a)
    \/ \E p \in 1..MaxListed : ListedExits(p)
    \/ ListFinish
    \/ Return

SpecChurn == InitChurn /\ [][NextChurn]_vars

\* a process none of whose fields is denied
FullyReadable(proc) ==
    proc.cpu # None /\ proc.mem # None /\ proc.name # NoneStr /\ proc.username # NoneStr

\* C18: whatever the call is denied of a process, and whichever process
\* exits while the call sleeps, the call returns status success, and with
\* include_all every process that is readable, was running throughout and
\* is not skipped by the mode is among the returned processes.
C18_DeniedNeverAborts ==
    ListDone =>
        /\ result.status = "success"
        /\ args.include_all =>
              \A j \in 1..Len(procs) :
                  (/\ FullyReadable(procs[j])
                   /\ procs[j] \in Range(loc.process_objects)
                   /\ ~SkippedByCpuFocus(args.analysis_mode, procs[j].cpu))
                      => procs[j].pid \in PidsOf(result.processes)

(***************************************************************************)
(* The whole surface: the operations already modelled, and                 *)
(* start_system_monitoring (agent.py 59-76), stop_system_monitoring        *)
(* (79-93), investigate_process (370-412), get_system_status (415-447),    *)
(* generate_system_report (854-898) and _monitor_security_loop             *)
(* (1011-1019).  Every operation's body is one try block; a failure of an  *)
(* operating system query is an exception raised inside it.                *)
(***************************************************************************)
Operations ==
    {"start_system_monitoring", "stop_system_monitoring", "list_processes",
     "check_cis_compliance", "investigate_process", "get_system_status",
     "get_process_tree", "filter_processes", "monitor_process_changes",
     "analyze_process_behavior", "generate_system_report"}

\* the operations that query the operating system
Querying == Operations \ {"start_system_monitoring", "stop_system_monitoring"}

\* lines 59-76: the flag is set and one more background loop is started
StartSystemMonitoring ==
    /\ pc = "idle"
    /\ self.loops < MaxLoops
    /\ self' = [monitoring_active |-> TRUE, loops |-> self.loops + 1, ended |-> FALSE]
    /\ op' = "start_system_monitoring"
    /\ args' = NoArgs
    /\ loc' = NoLoc
    /\ result' = [status |-> "success",
                  message |-> "System monitoring has been activated",
                  monitoring_active |-> TRUE]
    /\ pc' = "done"
    /\ UNCHANGED <<psutil, procs>>

\* lines 79-93
StopSystemMonitoring ==
    /\ pc = "idle"
    /\ self' = [self EXCEPT !.monitoring_active = FALSE]
    /\ op' = "stop_system_monitoring"
    /\ args' = NoArgs
    /\ loc' = NoLoc
    /\ result' = [status |-> "success",
                  message |-> "System monitoring has been deactivated",
                  monitoring_active |-> FALSE]
    /\ pc' = "done"
    /\ UNCHANGED <<psutil, procs>>

\* a mutant of MonitorSecurityLoop: the loop is stopped where it sleeps,
\* whatever the flag says
MonitorSecurityLoopPreempted ==
    /\ self.loops > 0
    /\ self' = [self EXCEPT !.loops = @ - 1, !.ended = TRUE]
    /\ UNCHANGED <<psutil, procs, op, pc, args, loc, result>>

\* lines 1011-1019: a background loop is run by the event loop, at its start
\* or when its sleep of line 1016 is over, and tests the flag of line 1013;
\* it ends when the flag is down, else it logs and sleeps again.  Nothing
\* between the test and the sleep suspends, so one pass is one step; `ended`
\* records that a loop has ended since the latest start.
MonitorSecurityLoop ==
    /\ self.loops > 0
    /\ self' = IF self.monitoring_active THEN self
               ELSE [self EXCEPT !.loops = @ - 1, !.ended = TRUE]
    /\ UNCHANGED <<psutil, procs, op, pc, args, loc, result>>

\* lines 403-407
InvestigateNotFound == [status |-> "error", message |-> "not found"]

\* lines 372-412
InvestigateProcess(pid) ==
    /\ pc = "idle"
    /\ op' = "investigate_process"
    /\ args' = [pid |-> pid]
    /\ loc' = NoLoc
    /\ result' =
         IF pid \notin Pids(procs) THEN InvestigateNotFound
         ELSE LET proc == CHOOSE x \in Range(procs) : x.pid = pid
              IN  [status |-> "success",
                   process |-> [pid |-> pid,
                                name |-> proc.name,
                                cmdline |-> JoinSpace(proc.cmdline),
                                username |-> proc.username,
                                cpu_percent |-> proc.cpu,
                                memory_percent |-> proc.mem,
                                status |-> proc.status,
                                num_threads |-> proc.threads,
                                memory_rss_mb |-> RoundMb(proc.rss),
                                memory_vms_mb |-> RoundMb(proc.vms),
                                ppid |-> proc.ppid]]
    /\ pc' = "done"
    /\ UNCHANGED <<self, psutil, procs>>

\* what psutil.cpu_percent(interval=1) of line 418 reads
SystemCpuReadings == {50000, 80000, 90000}

\* the dict returned at lines 423-441
SystemStatus(cpu_percent) ==
    [status |-> "success",
     agent_info |-> [monitoring_active |-> self.monitoring_active],
     system_metrics |-> [cpu_percent |-> cpu_percent, process_count |-> Len(procs)],
     monitoring_summary |->
         [monitoring_status |-> IF self.monitoring_active THEN "Active" ELSE "Inactive"]]

\* lines 415-447
GetSystemStatus(cpu_percent) ==
    /\ pc = "idle"
    /\ op' = "get_system_status"
    /\ args' = NoArgs
    /\ loc' = NoLoc
    /\ result' = SystemStatus(cpu_percent)
    /\ pc' = "done"
    /\ UNCHANGED <<self, psutil, procs>>

\* the arguments of the listing call of line 861: the parameters it does not
\* name take the defaults of lines 97-102
ReportListArgs ==
    [analysis_mode |-> "snapshot", limit |-> 25, sort_by |-> "cpu", offset |-> 0,
     cpu_interval |-> 500, include_all |-> FALSE]

\* what the five commands of one compliance check of a report come to
ReportRuns ==
    {[i \in 1..Len(cis_checks) |-> o] : o \in {"exit_zero", "exit_nonzero"}}
      \cup {[i \in 1..Len(cis_checks) |-> IF i = 1 THEN "timeout" ELSE "exit_zero"]}

\* x.get(key, 0)
GetOrZero(x, key) == IF Has(x, key) THEN x[key] ELSE 0

\* a mutant of SystemHealth: a CPU rate of exactly 80 % is still good
SystemHealthUpTo(status) ==
    IF GetOrZero(status.system_metrics, "cpu_percent") <= 80000
    THEN "Good" ELSE "Concerning"

\* line 872
SystemHealth(status) ==
    IF GetOrZero(status.system_metrics, "cpu_percent") < 80000
    THEN "Good" ELSE "Concerning"

\* lines 861-863: the three calls the report makes, in the order it makes
\* them, each with the arguments it passes
ReportCalls ==
    <<[call |-> "list_processes", analysis_mode |-> "snapshot", limit |-> 25],
      [call |-> "check_cis_compliance", benchmark_type |-> "linux"],
      [call |-> "get_system_status"]>>

\* lines 856-892; loc keeps the three results the calls returned and the
\* calls that were made
GenerateSystemReport(report_type, ran, cpu_percent) ==
    /\ pc = "idle"
    /\ op' = "generate_system_report"
    /\ args' = [report_type |-> report_type]
    /\ LET processes == ListProcesses(ReportListArgs, FirstPass(procs))
           compliance ==
               ComplianceResult([i \in 1..Len(cis_checks) |->
                                     PerformCheck(cis_checks[i], ran[i])])
           status == SystemStatus(cpu_percent)
           report ==
               [report_type |-> IF report_type = "None" THEN "summary" ELSE report_type,
                executive_summary |->
                    [monitoring_status |-> self.monitoring_active,
                     total_processes |-> GetOrZero(processes, "total_processes"),
                     compliance_score |-> GetOrZero(compliance, "compliance_score"),
                     system_health |-> SystemHealth(status)]]
       IN  /\ loc' = [processes |-> processes, compliance |-> compliance,
                      status |-> status, calls |-> ReportCalls]
           /\ result' =
                [status |-> "success",
                 report |-> IF report_type = "detailed"
                            THEN report @@ [detailed_analysis |->
                                               [process_details |-> processes,
                                                compliance_details |-> compliance,
                                                system_status |-> status]]
                            ELSE report]
    /\ pc' = "done"
    /\ UNCHANGED <<self, psutil, procs>>

\* an operating system query of the operation raises before the operation
\* has suspended: the operation's except-Exception handler returns
QueryFails(operation) ==
    /\ pc = "idle"
    /\ op' = operation
    /\ args' = NoArgs
    /\ loc' = NoLoc
    /\ result' = ErrorResult
    /\ pc' = "done"
    /\ UNCHANGED <<self, psutil, procs>>

\* a query of the operation in flight raises an exception that no inner
\* handler names: the operation's except-Exception handler returns
QueryFailsInFlight ==
    /\ pc \notin {"idle", "done"}
    /\ result' = ErrorResult
    /\ pc' = "done"
    /\ UNCHANGED <<self, psutil, procs, op, args, loc>>

InitSurface ==
    /\ procs \in KindTables(MaxListed, {ReadableKind})
    /\ InitIdle

NextSurface ==
    \/ StartSystemMonitoring
    \/ StopSystemMonitoring
    \/ MonitorSecurityLoop
    \/ \E a \in ChurnArgs : ListStart(a)
    \/ ListFinish
    \/ \E b \in {"None", "linux"} : CisStart(b, Len(cis_checks))
    \/ \E o \in Outcomes : CisRunCheck(o)
    \/ CisFinish
    \/ \E pid \in 1..MaxPid : InvestigateProcess(pid)
    \/ \E c \in SystemCpuReadings : GetSystemStatus(c)
    \/ \E a \in TreeArgs : GetProcessTree(a)
    \/ \E a \in FilterArgs : FilterProcesses(a)
    \/ \E d \in 0..MaxDuration, i \in 1..MaxInterval : MonitorStart(d, i)
    \/ MonitorDeadline
    \/ \E pid \in 1..MaxPid, d \in 0..MaxTicks : AnalyzeStart(pid, d)
    \/ AnalyzeStep
    \/ \E t \in {"None", "summary", "detailed"}, ran \in ReportRuns,
          c \in SystemCpuReadings : GenerateSystemReport(t, ran, c)
    \/ \E operation \in Querying : QueryFails(operation)
    \/ QueryFailsInFlight
    \/ Return

SpecSurface == InitSurface /\ [][NextSurface]_vars

\* C19: whatever an operation is called with and whichever of its queries
\* fails, what the operation returns is a dict with status success, or with
\* status error and a message; nothing else comes out of an operation.
C19_StructuredResult ==
    pc = "done" =>
        /\ op \in Operations
        /\ result.status \in {"success", "error"}
        /\ result.status = "error" => Has(result, "message")

\* a call whose body raised has returned the error dict: the AttributeError
\* of monitor_process_changes, and a failed query of a report
C19_Witness ==
    /\ pc = "done"
    /\ result = ErrorResult
    /\ op \in {"monitor_process_changes", "generate_system_report"}

(***************************************************************************)
(* list_processes interleaved with other foreground calls at its sleep     *)
(* (agent.py 149-163, 463-474, 570-577).  Time passes only while the call  *)
(* sleeps; filter_processes and get_process_tree never suspend, and each   *)
(* pass of another list_processes runs without suspending, so each of them *)
(* is one step in the middle of the sleep.  psutil.process_iter yields the *)
(* Process object it has cached for a pid, the same object to every call,  *)
(* and Process.cpu_percent() measures from the object's latest read.       *)
(***************************************************************************)
CpuTimeOf(table, pid) == (CHOOSE x \in Range(table) : x.pid = pid).cpu_time

\* Process.cpu_percent() on the cached object of pid: 0.0 on the object's
\* first read or when no time has passed, else the share of the time since
\* the object's latest read that the process spent on the CPU, to one decimal
CpuPercent(pmap, pid, timer, cpu_time) ==
    IF pid \notin DOMAIN pmap THEN 0
    ELSE IF timer = pmap[pid].last_sys THEN 0
    ELSE 100 * RoundDiv(1000 * (cpu_time - pmap[pid].last_proc),
                        timer - pmap[pid].last_sys)

\* what cpu_percent() leaves in the objects of pids when read at timer
AfterReads(pmap, pids, table, timer) ==
    [p \in DOMAIN pmap \cup pids |->
        IF p \in pids
        THEN [last_sys |-> timer, last_proc |-> CpuTimeOf(table, p)]
        ELSE pmap[p]]

\* lines 121-157 with the reads of line 151: first_read is what this call's
\* own first reads were, kept beside the locals
ListStartReading(a) ==
    /\ pc = "idle"
    /\ op' = "list_processes"
    /\ args' = a
    /\ psutil' = [psutil EXCEPT
                    !.pmap = AfterReads(@, Pids(FirstPass(procs)), procs, psutil.timer)]
    /\ loc' = [cpu_interval |-> EffectiveInterval(a),
               limit |-> EffectiveLimit(a),
               sort_by |-> EffectiveSortBy(a),
               process_objects |-> FirstPass(procs),
               first_read |-> AfterReads(<<>>, Pids(FirstPass(procs)), procs, psutil.timer)]
    /\ pc' = "list_sleep"
    /\ result' = NoResult
    /\ UNCHANGED <<self, procs>>

\* the process_objects with the cpu that cpu_percent() returns at line 163,
\* measured from the baselines of pmap
Measured(process_objects, pmap, table, timer) ==
    [i \in 1..Len(process_objects) |->
        [process_objects[i] EXCEPT
            !.cpu = CpuPercent(pmap, process_objects[i].pid, timer,
                               CpuTimeOf(table, process_objects[i].pid))]]

\* lines 159-327 with the reads of line 163
ListFinishReading ==
    /\ op = "list_processes"
    /\ pc = "list_sleep"
    /\ Has(loc, "first_read")
    /\ \A p \in DOMAIN loc.first_read : psutil.timer > loc.first_read[p].last_sys
    /\ result' = ListResponse(args, loc.cpu_interval, loc.limit, loc.sort_by,
                              SecondPass(args.analysis_mode,
                                         Measured(loc.process_objects, psutil.pmap,
                                                  procs, psutil.timer)))
    /\ psutil' = [psutil EXCEPT
                    !.pmap = AfterReads(@, Pids(loc.process_objects), procs, psutil.timer)]
    /\ pc' = "done"
    /\ UNCHANGED <<self, procs, op, args, loc>>

\* the other calls that can run while the call sleeps
OtherCalls ==
    {[call |-> "filter_processes"], [call |-> "list_processes"]}
      \cup {[call |-> "get_process_tree", root_pid |-> r] : r \in 0..MaxListed}

\* the processes whose cpu_percent() the other call reads: line 576 for every
\* process, line 151 or 163 for every process, line 473 for every node of the
\* tree
ReadBy(other, table) ==
    IF other.call = "get_process_tree"
    THEN PidsOf(AllNodes(BuildTree(table, DefaultMaxDepth, FALSE, other.root_pid, 0)))
    ELSE Pids(table)

\* another call runs in the middle of the sleep of line 157
OtherCallReads(other) ==
    /\ op = "list_processes"
    /\ pc = "list_sleep"
    /\ ReadBy(other, procs) # {}
    /\ psutil' = [psutil EXCEPT
                    !.pmap = AfterReads(@, ReadBy(other, procs), procs, psutil.timer)]
    /\ UNCHANGED <<self, procs, op, pc, args, loc, result>>

\* the sleep of line 157 goes on for one unit of time, in which the
\* processes of busy are on a CPU
TimePasses(busy) ==
    /\ op = "list_processes"
    /\ pc = "list_sleep"
    /\ psutil.timer < MaxClock
    /\ psutil' = [psutil EXCEPT !.timer = @ + 1]
    /\ procs' = [i \in 1..Len(procs) |->
                    IF procs[i].pid \in busy
                    THEN [procs[i] EXCEPT !.cpu_time = @ + 1]
                    ELSE procs[i]]
    /\ UNCHANGED <<self, op, pc, args, loc, result>>

\* the tables of the interleaving: each process with the CPU time it has used
TimedTables ==
    {[i \in 1..Len(t) |-> t[i] @@ [cpu_time |-> 0]] :
        t \in KindTables(MaxListed, {ReadableKind}) \ {<<>>}}

InitShared ==
    /\ procs \in TimedTables
    /\ InitIdle

NextShared ==
    \/ \E a \in ChurnArgs : ListStartReading(a)
    \/ \E other \in OtherCalls : OtherCallReads(other)
    \/ \E busy \in SUBSET (1..MaxListed) : TimePasses(busy)
    \/ ListFinishReading
    \/ Return

SpecShared == InitShared /\ [][NextShared]_vars

\* C20: the response of a list_processes call is the response computed from
\* the CPU rates between the call's own first read of each process (before
\* its sleep) and its own second read (after it), whatever other calls read
\* the processes' CPU counters during the sleep.
C20_OwnTwoReads ==
    (ListDone /\ Has(loc, "first_read")) =>
        result = ListResponse(args, loc.cpu_interval, loc.limit, loc.sort_by,
                              SecondPass(args.analysis_mode,
                                         Measured(loc.process_objects, loc.first_read,
                                                  procs, psutil.timer)))

(***************************************************************************)
(* The background loops (agent.py 59-93, 1011-1019) under the calls that   *)
(* start and stop them and the calls that report the flag.  The event loop *)
(* runs every task that is ready: a loop whose sleep of 30 s is over is    *)
(* run again, which is the fairness of SpecLoopsFair.                      *)
(***************************************************************************)
InitLoops ==
    /\ procs \in KindTables(MaxListed, {ReadableKind})
    /\ InitIdle

NextLoops ==
    \/ StartSystemMonitoring
    \/ StopSystemMonitoring
    \/ MonitorSecurityLoop
    \/ \E c \in SystemCpuReadings : GetSystemStatus(c)
    \/ \E pid \in 1..MaxPid : InvestigateProcess(pid)
    \/ Return

SpecLoops == InitLoops /\ [][NextLoops]_vars

SpecLoopsFair == SpecLoops /\ WF_vars(MonitorSecurityLoop)

\* a background loop ends in this step
LoopEnds == self'.loops < self.loops

\* C21: when the flag is set to false and stays false (no start follows),
\* every running background loop eventually ends; and a loop ends only in
\* the step in which it tests the flag and finds it false, one loop at a
\* time, never while it sleeps in the middle of an iteration with the flag
\* up, and without touching the call in the foreground.
C21_StopEndsLoops ==
    /\ (<>[](~self.monitoring_active)) => <>[](self.loops = 0)
    /\ [][LoopEnds => /\ ~self.monitoring_active
                       /\ self'.loops = self.loops - 1
                       /\ self'.monitoring_active = self.monitoring_active
                       /\ UNCHANGED <<psutil, procs, op, pc, args, loc, result>>]_vars

\* every background loop has ended after stop_system_monitoring has returned
C21_Witness ==
    /\ self.ended
    /\ self.loops = 0
    /\ ~self.monitoring_active
    /\ op = "stop_system_monitoring"
    /\ pc = "done"

\* C28: at most one background loop is running, whatever the sequence of
\* start_system_monitoring and stop_system_monitoring calls.
C28_AtMostOneLoop == self.loops <= 1

(***************************************************************************)
(* list_processes read by read (agent.py 121-163, 309): the two loops over *)
(* the processes and the waits of the call, in the order the call makes    *)
(* them.  loc.events is the record of the reads and waits the call has     *)
(* made, loc.elapsed the time the call has been suspended, in              *)
(* milliseconds.                                                           *)
(***************************************************************************)
\* the calls whose cpu_interval is missing, zero, negative, below the range,
\* within it and above it
SamplingArgs ==
    {b @@ ci :
        b \in [analysis_mode : Modes, offset : {0}, include_all : {TRUE}],
        ci \in Optional("cpu_interval", {-1000, 0, 50, 500, 3000, 9000})}

\* lines 121-147: the parameters are set; process_iter is about to yield
SamplingStart(a) ==
    /\ pc = "idle"
    /\ op' = "list_processes"
    /\ args' = a
    /\ loc' = [cpu_interval |-> EffectiveInterval(a),
               limit |-> EffectiveLimit(a),
               sort_by |-> EffectiveSortBy(a),
               iter |-> procs,
               process_objects |-> <<>>,
               events |-> <<>>,
               elapsed |-> 0]
    /\ pc' = "first_pass"
    /\ result' = NoResult
    /\ UNCHANGED <<self, psutil, procs>>

\* lines 149-154: one iteration of the first loop, or its end
FirstPassStep ==
    /\ op = "list_processes"
    /\ pc = "first_pass"
    /\ IF loc.iter = <<>>
       THEN /\ pc' = "sampling_sleep"
            /\ loc' = loc
       ELSE LET proc == Head(loc.iter)
            IN  /\ pc' = pc
                /\ loc' = IF proc.cpu # None
                          THEN [loc EXCEPT
                                  !.iter = Tail(@),
                                  !.process_objects = Append(@, proc),
                                  !.events = Append(@, [e |-> "first_read", pid |-> proc.pid])]
                          ELSE [loc EXCEPT !.iter = Tail(@)]
    /\ UNCHANGED <<self, psutil, procs, op, args, result>>

\* a mutant of SamplingSleep: the call sleeps once for each process
SamplingSleepPerProcess ==
    /\ op = "list_processes"
    /\ pc = "sampling_sleep"
    /\ loc' = [loc EXCEPT
                 !.iter = loc.process_objects,
                 !.events = @ \o [i \in 1..Len(loc.process_objects) |->
                                     [e |-> "sleep", pid |-> 0]],
                 !.elapsed = @ + Len(loc.process_objects) * loc.cpu_interval]
    /\ pc' = "second_pass"
    /\ UNCHANGED <<self, psutil, procs, op, args, result>>

\* line 157: await asyncio.sleep(cpu_interval)
SamplingSleep ==
    /\ op = "list_processes"
    /\ pc = "sampling_sleep"
    /\ loc' = [loc EXCEPT
                 !.iter = loc.process_objects,
                 !.events = Append(@, [e |-> "sleep", pid |-> 0]),
                 !.elapsed = @ + loc.cpu_interval]
    /\ pc' = "second_pass"
    /\ UNCHANGED <<self, psutil, procs, op, args, result>>

\* the operating system, while the call sleeps: a process exits
SampledExits(p) ==
    /\ op = "list_processes"
    /\ pc = "second_pass"
    /\ loc.iter = loc.process_objects
    /\ p \in Pids(procs)
    /\ procs' = Without(procs, p)
    /\ UNCHANGED <<self, psutil, op, pc, args, loc, result>>

\* lines 160-230: one iteration of the second loop; the read of line 163 is
\* made also of a process that has exited, and raises.  At the loop's end,
\* lines 232-327: cpu_focus mode waits for the system's CPU rate at line 309
\* without suspending, and the response is returned
SecondPassStep ==
    /\ op = "list_processes"
    /\ pc = "second_pass"
    /\ IF loc.iter = <<>>
       THEN LET running == StillRunning(loc.process_objects, procs)
            IN  /\ pc' = "done"
                /\ loc' = IF args.analysis_mode = "cpu_focus"
                          THEN [loc EXCEPT !.events = Append(@, [e |-> "block", pid |-> 0])]
                          ELSE loc
                /\ result' = ListResponse(args, loc.cpu_interval, loc.limit, loc.sort_by,
                                          SecondPass(args.analysis_mode, running))
       ELSE /\ pc' = pc
            /\ loc' = [loc EXCEPT
                         !.iter = Tail(@),
                         !.events = Append(@, [e |-> "second_read",
                                               pid |-> Head(loc.iter).pid])]
            /\ result' = result
    /\ UNCHANGED <<self, psutil, procs, op, args>>

\* a process whose cpu_percent() raises AccessDenied
CpuDeniedKind == [ReadableKind EXCEPT !.cpu = None]

InitSampling ==
    /\ procs \in KindTables(MaxListed, {ReadableKind, CpuDeniedKind})
    /\ InitIdle

NextSampling ==
    \/ \E a \in SamplingArgs : SamplingStart(a)
    \/ FirstPassStep
    \/ SamplingSleep
    \/ \E p \in 1..MaxListed : SampledExits(p)
    \/ SecondPassStep
    \/ Return

SpecSampling == InitSampling /\ [][NextSampling]_vars

SamplingDone == op = "list_processes" /\ pc = "done" /\ Has(loc, "events")

\* the positions of the events of kind e in the record of a call
EventsAt(events, e) == {i \in 1..Len(events) : events[i].e = e}

\* C22: in one call every process collected has one first read and one
\* second read of its CPU counter, every first read is made before the
\* sleep and every second read after it, and the call suspends exactly
\* once, for the sampling interval, however many processes there are.
C22_OneSharedSleep ==
    SamplingDone =>
        LET events == loc.events
            sleeps == EventsAt(events, "sleep")
        IN  /\ Cardinality(sleeps) = 1
            /\ loc.elapsed = loc.cpu_interval
            /\ \A i \in EventsAt(events, "first_read"), s \in sleeps : i < s
            /\ \A i \in EventsAt(events, "second_read"), s \in sleeps : s < i
            /\ \A j \in 1..Len(loc.process_objects) :
                  /\ Cardinality({i \in EventsAt(events, "first_read") :
                                     events[i].pid = loc.process_objects[j].pid}) = 1
                  /\ Cardinality({i \in EventsAt(events, "second_read") :
                                     events[i].pid = loc.process_objects[j].pid}) = 1

\* a call over as many processes as the table holds has returned
C22_Witness ==
    /\ SamplingDone
    /\ Len(loc.process_objects) = MaxListed
    /\ Len(result.processes) = MaxListed

\* C23: whatever cpu_interval is passed (none, zero, negative, too small,
\* too large), the call succeeds and the interval it sleeps for and reports
\* is within [0.1 s, 5 s]; it is at least 2 s in cpu_focus mode and 0.1 s in
\* snapshot mode.
C23_IntervalClamped ==
    SamplingDone =>
        /\ result.status = "success"
        /\ result.measurement_details.cpu_interval_seconds = loc.elapsed
        /\ loc.elapsed >= 100
        /\ loc.elapsed <= 5000
        /\ args.analysis_mode = "cpu_focus" => loc.elapsed >= 2000
        /\ args.analysis_mode = "snapshot" => loc.elapsed = 100

\* calls have returned that were passed an interval above the range, and a
\* negative one
C23_Witness ==
    /\ SamplingDone
    /\ Has(args, "cpu_interval")
    /\ \/ args.cpu_interval = 9000 /\ loc.elapsed = 5000
       \/ args.cpu_interval < 0 /\ args.analysis_mode = "cpu_focus" /\ loc.elapsed = 2000

(***************************************************************************)
(* The order of the records list_processes returns (agent.py 232-243).     *)
(***************************************************************************)
\* the resident set size of the process of a record, as the enhanced
\* metrics of line 210 report it
RssOf(record) == RoundMb(ProcOfPid(record.pid).rss)

\* whether the record x may stand directly before the record y in a list
\* ordered by sort_by
InOrder(sort_by, x, y) ==
    CASE sort_by = "cpu" -> x.cpu_percent >= y.cpu_percent
      [] sort_by = "memory" -> x.memory_percent >= y.memory_percent
      [] sort_by = "memory_rss" -> RssOf(x) >= RssOf(y)
      [] sort_by = "pid" -> x.pid <= y.pid
      [] sort_by = "name" -> ~StrLess(Lower(y.name), Lower(x.name))

\* C24: for each of the sort keys cpu, memory, memory_rss, pid and name the
\* returned records are in the key's order: every record and the one after
\* it are in descending order of CPU rate, memory share or resident set
\* size, or in ascending order of pid or of the lower-cased name.
C24_SortedByKey ==
    (ListDone /\ loc.sort_by \in SortKeys) =>
        \A i \in 1..(Len(result.processes) - 1) :
            InOrder(loc.sort_by, result.processes[i], result.processes[i + 1])

\* the same for the calls whose records carry the key they are sorted by
C24_SortedByCarriedKey ==
    (ListDone /\ loc.sort_by \in SortKeys
       /\ (loc.sort_by = "memory_rss" => args.analysis_mode \in {"comprehensive", "cpu_focus"})) =>
        \A i \in 1..(Len(result.processes) - 1) :
            InOrder(loc.sort_by, result.processes[i], result.processes[i + 1])

(***************************************************************************)
(* What list_processes leaves out (agent.py 160-181) and what it counts    *)
(* (agent.py 245-327).                                                     *)
(***************************************************************************)
\* the processes of the table whose sampled CPU rate is above 0.01 %
AboveCpuFloor == SelectSeq(procs, LAMBDA q : q.cpu > 10)

\* C25: in cpu_focus mode no returned record is of a process whose sampled
\* CPU rate is at most 0.01 %, and the totals count only the processes
\* above it; in every other mode every process is counted, and returned
\* with include_all, whatever its CPU rate.
C25_CpuFloorOnlyInCpuFocus ==
    ListDone =>
        IF args.analysis_mode = "cpu_focus"
        THEN /\ \A i \in 1..Len(result.processes) :
                   ProcOfPid(result.processes[i].pid).cpu > 10
             /\ result.measurement_details.total_processes_found = Len(AboveCpuFloor)
             /\ result.cpu_analysis.processes_with_measurable_cpu = Len(AboveCpuFloor)
             /\ args.include_all => PidsOf(result.processes) = Pids(AboveCpuFloor)
        ELSE /\ result.measurement_details.total_processes_found = Len(procs)
             /\ args.include_all => PidsOf(result.processes) = Pids(procs)

\* a cpu_focus call has left out a process with a rate of 0.008 % and one
\* with a rate of zero, and returns no record
C25_Witness ==
    /\ ListDone
    /\ args.include_all
    /\ \E i, j \in 1..Len(procs) : procs[i].cpu = 0 /\ procs[j].cpu = 8
    /\ args.analysis_mode = "cpu_focus"
    /\ result.processes = <<>>

\* the records of every process the call collected, whatever the page
Population ==
    ListProcesses([args EXCEPT !.include_all = TRUE], procs).processes

\* the summary counts over the records of population
SummaryCounts(population) ==
    [high_cpu_processes |->
         Len(SelectSeq(population, LAMBDA r : r.cpu_percent > 5000)),
     high_memory_processes |->
         Len(SelectSeq(population, LAMBDA r : r.memory_percent > 5000)),
     active_processes |->
         Len(SelectSeq(population, LAMBDA r : r.cpu_percent > 0
                                               \/ ProcOfPid(r.pid).threads > 1))]

\* C26: in every analysis mode the summary of the result holds the three
\* counts over all the records collected, not over the page returned: the
\* records with a CPU rate above 5 %, those with a memory share above 5 %,
\* and those that are active (CPU rate above 0, or more than one thread).
C26_SummaryOverPopulation ==
    ListDone => result.summary = SummaryCounts(Population)

\* the same in the modes other than snapshot
C26_SummaryOutsideSnapshot ==
    (ListDone /\ args.analysis_mode # "snapshot") =>
        result.summary = SummaryCounts(Population)

(***************************************************************************)
(* generate_system_report (agent.py 854-898) under the calls that set the  *)
(* monitoring flag it reports.                                             *)
(***************************************************************************)
InitReport ==
    /\ procs \in KindTables(MaxListed, ProcKinds)
    /\ InitIdle

NextReport ==
    \/ StartSystemMonitoring
    \/ StopSystemMonitoring
    \/ MonitorSecurityLoop
    \/ \E t \in {"None", "summary", "detailed"}, ran \in ReportRuns,
          c \in SystemCpuReadings : GenerateSystemReport(t, ran, c)
    \/ Return

SpecReport == InitReport /\ [][NextReport]_vars

ReportDone == op = "generate_system_report" /\ pc = "done" /\ result.status = "success"

C29_SeriesSameLength ==
    (AnalyzeDone /\ result.status = "success") =>
        Len(result.behavior_data.cpu_samples) = Len(result.behavior_data.memory_samples)

\* the same for the calls whose process has not exited since its latest CPU
\* sample was taken
C29_SameLengthUnlessExitMidTick ==
    (AnalyzeDone /\ result.status = "success"
       /\ loc.gone_at # Len(result.behavior_data.cpu_samples)) =>
        Len(result.behavior_data.cpu_samples) = Len(result.behavior_data.memory_samples)

(***************************************************************************)
(* SyscallMonitorTaskManager.on_send_task (task_manager.py 80-147), for    *)
(* several requests in flight at once.  Here self is the task manager:     *)
(* self.tasks maps a task id to the task's status and history, self.lock   *)
(* is the manager's lock.  pc, args, loc and result are those of each      *)
(* request.  A call suspends at the await of line 114 and nowhere else:    *)
(* the lock is free whenever a call is resumed, so neither `async with`    *)
(* waits.                                                                  *)
(***************************************************************************)
Requests == 1..MaxRequests

\* the task ids of the requests
TaskIds == 1..MaxRequests

\* what self.agent.invoke does at line 114: it returns a text, an empty
\* text, a text of white space, or raises
InvokeOutcomes == {"text", "empty", "blank", "raises"}

\* request.params.message of request r
UserMessage(r) == [role |-> "user", request |-> r, text |-> "query"]

\* upsert_task as lines 102-105 describe it: under the lock, a task that
\* does not exist is created with the message as its history, else the
\* message is appended to the task's history
UpsertTask(tasks, id, message) ==
    IF id \in DOMAIN tasks
    THEN [tasks EXCEPT ![id].history = Append(@, message)]
    ELSE tasks @@ [x \in {id} |-> [status |-> "SUBMITTED", history |-> <<message>>]]

\* lines 113-126: the text of the reply
SyscallAnalysis(outcome) ==
    CASE outcome = "text" -> "analysis"
      [] outcome \in {"empty", "blank"} -> "no specific results"
      [] outcome = "raises" -> "analysis failed"

\* lines 129-132
ReplyMessage(r, outcome) ==
    [role |-> "agent", request |-> r, text |-> SyscallAnalysis(outcome)]

\* a mutant of Completed: the reply takes the place of the latest message
CompletedOverLatest(task, reply_message) ==
    [task EXCEPT !.status = "COMPLETED",
                 !.history = Append(SubSeq(@, 1, Len(@) - 1), reply_message)]

\* lines 138-140
Completed(task, reply_message) ==
    [task EXCEPT !.status = "COMPLETED", !.history = Append(@, reply_message)]

\* lines 100-114: the task is upserted and the call awaits the agent
OnSendTask(r, id) ==
    /\ pc[r] = "idle"
    /\ ~self.lock
    /\ self' = [self EXCEPT !.tasks = UpsertTask(@, id, UserMessage(r))]
    /\ args' = [args EXCEPT ![r] = [id |-> id]]
    /\ loc' = [loc EXCEPT ![r] = [task |-> id]]
    /\ pc' = [pc EXCEPT ![r] = "invoke"]
    /\ UNCHANGED <<psutil, procs, op, result>>

\* lines 114-147: the agent's answer, or its exception, comes back; the
\* reply is made, and under the lock the task is marked and the reply
\* appended
InvokeReturns(r, outcome) ==
    /\ pc[r] = "invoke"
    /\ ~self.lock
    /\ self' = [self EXCEPT
                  !.tasks[loc[r].task] = Completed(@, ReplyMessage(r, outcome))]
    /\ loc' = [loc EXCEPT ![r] = [task |-> loc[r].task, outcome |-> outcome]]
    /\ result' = [result EXCEPT ![r] = [id |-> r, result |-> loc[r].task]]
    /\ pc' = [pc EXCEPT ![r] = "done"]
    /\ UNCHANGED <<psutil, procs, op, args>>

InitTasks ==
    /\ self = [tasks |-> <<>>, lock |-> FALSE]
    /\ psutil = InitPsutil
    /\ procs = <<>>
    /\ op = "on_send_task"
    /\ pc = [r \in Requests |-> "idle"]
    /\ args = [r \in Requests |-> NoArgs]
    /\ loc = [r \in Requests |-> NoLoc]
    /\ result = [r \in Requests |-> NoResult]

NextTasks ==
    \/ \E r \in Requests, id \in TaskIds : OnSendTask(r, id)
    \/ \E r \in Requests, outcome \in InvokeOutcomes : InvokeReturns(r, outcome)

SpecTasks == InitTasks /\ [][NextTasks]_vars

\* the positions in history of the messages of role that request r brought
MessagesOf(history, role, r) ==
    {i \in 1..Len(history) : history[i].role = role /\ history[i].request = r}

\* C30: when a call has ended, its task is COMPLETED and the task's history
\* holds exactly one agent message of the call, after the call's user
\* message, with the agent's text, the stand-in for an empty text or the
\* failure text; with several requests on one task id in flight every
\* reply is in the history: a task has as many agent messages as calls on
\* it have ended, and a user message for every call that has begun.
C30_OneReplyPerCall ==
    /\ \A r \in Requests :
          pc[r] = "done" =>
              LET task == self.tasks[args[r].id]
                  replies == MessagesOf(task.history, "agent", r)
                  asked == MessagesOf(task.history, "user", r)
              IN  /\ task.status = "COMPLETED"
                  /\ Cardinality(replies) = 1
                  /\ Cardinality(asked) = 1
                  /\ \A i \in asked, j \in replies : i < j
                  /\ \A j \in replies :
                        task.history[j].text =
                            (CASE loc[r].outcome = "text" -> "analysis"
                               [] loc[r].outcome = "raises" -> "analysis failed"
                               [] OTHER -> "no specific results")
    /\ \A id \in DOMAIN self.tasks :
          /\ Cardinality({i \in 1..Len(self.tasks[id].history) :
                             self.tasks[id].history[i].role = "agent"})
               = Cardinality({r \in Requests : pc[r] = "done" /\ args[r].id = id})
          /\ Cardinality({i \in 1..Len(self.tasks[id].history) :
                             self.tasks[id].history[i].role = "user"})
               = Cardinality({r \in Requests : pc[r] # "idle" /\ args[r].id = id})

\* two calls on the same task id were in flight together and both have
\* ended, one with the agent's text and one with its exception
C30_Witness ==
    /\ \A r \in Requests : pc[r] = "done" /\ args[r].id = 1
    /\ \E r \in Requests : loc[r].outcome = "raises"
    /\ \E r \in Requests : loc[r].outcome = "text"
    /\ self.tasks[1].history[2].role = "user"

====
